---- MODULE Spec2Model ----
(***************************************************************************)
(* A model of mandalay: the KML import pipeline (cmd/import/main.go), the  *)
(* placemark store's read queries (internal/store/placemark.go), the API   *)
(* server's bounding-box handler (internal/api/handlers.go) and the map of *)
(* the web client (web/src).                                               *)
(*                                                                         *)
(* The specifications of this module:                                      *)
(*   Spec        the import run against the PostgreSQL tables;             *)
(*   SpecServe   the import run with the store's read queries running      *)
(*               beside it;                                                *)
(*   SpecQuery   the read queries over a table that earlier runs filled;   *)
(*   SpecApi     the bounding-box endpoint over such a table, and the      *)
(*               markers the map draws from its responses;                 *)
(*   SpecTwice   the import with -truncate, run again and again on one     *)
(*               document;                                                 *)
(*   SpecWalk    parseKML's folder walk, with Go's slice/backing-array     *)
(*               semantics for the folder path;                            *)
(*   SpecGeom    buildPolygonWKT over bounded coordinate lists;            *)
(*   SpecCoord   parseCoordinates over bounded coordinate texts;           *)
(*   SpecNorm    processPlacemark over bounded Placemark nodes;            *)
(*   SpecHook    usePlacemarksBBox with the query client's cache and       *)
(*               retries;                                                  *)
(*   SpecFly     MapFlyToHandler on the map, and SpecFlyLive, the same     *)
(*               with the effect of a render sure to run.                  *)
(***************************************************************************)
EXTENDS Integers, Sequences, FiniteSets, TLC

(***************************************************************************)
(* Bounds of the model.                                                    *)
(***************************************************************************)
\* the cap on the placemarks_id_seq counter, and the longest style list
MaxId == 2
MaxStyles == 1
\* the folders and the placemarks of a document
MaxFolders == 5
MaxPlacemarks == 2
\* the coordinate tokens of a Polygon element, over all its boundaries
MaxTokens == 6
\* the tokens of a coordinate text given to parseCoordinates alone
MaxCoordTokens == 4
\* the Data entries of a Placemark's ExtendedData
MaxData == 3

(***************************************************************************)
(* Optional values (Go's nil pointers, SQL NULL).                          *)
(***************************************************************************)
None == <<>>
Some(x) == <<x>>

SeqsUpTo(S, n) == UNION {[1..k -> S] : k \in 0..n}

Range(s) == {s[i] : i \in DOMAIN s}

(***************************************************************************)
(* Inputs of an import run: what parseKML hands to main.                   *)
(***************************************************************************)
\* Style values of the document (type Style): the id attribute, the optional
\* IconStyle (scale, optional Icon href) and the optional LabelStyle (scale).
StylePool ==
  { [ID |-> "s1", IconStyle |-> Some([Scale |-> 1, Icon |-> Some("a.png")]),
     LabelStyle |-> None],
    [ID |-> "s1", IconStyle |-> None, LabelStyle |-> Some([Scale |-> 2])],
    [ID |-> "s2", IconStyle |-> Some([Scale |-> 1, Icon |-> None]),
     LabelStyle |-> None] }

\* PlacemarkRecord values: one refers to a style the documents can carry, one
\* to a style no document carries, one to no style at all.
PlacemarkPool ==
  { [Name |-> "1/2/2017 A", Description |-> "", StyleID |-> "s1",
     FolderPath |-> <<"Day1">>, GeometryType |-> "Point",
     Geom |-> [type |-> "Point", coordinates |-> <<1, 1>>], MediaLinks |-> <<>>,
     ExtendedData |-> ("k1" :> "v1")],
    [Name |-> "Stop", Description |-> "", StyleID |-> "s9",
     FolderPath |-> <<>>, GeometryType |-> "Point",
     Geom |-> [type |-> "Point", coordinates |-> <<3, 3>>], MediaLinks |-> <<"m.jpg">>,
     ExtendedData |-> ("k1" :> "v1" @@ "k2" :> "v2")],
    [Name |-> "12/25/2016", Description |-> "", StyleID |-> "",
     FolderPath |-> <<"Day1", "AM">>, GeometryType |-> "Point",
     Geom |-> [type |-> "Point", coordinates |-> <<1, 3>>], MediaLinks |-> <<>>,
     ExtendedData |-> <<>>] }

VARIABLES
  \* the committed contents of the three tables and placemarks' SERIAL
  \* sequence (placemark_data's own id column, which nothing reads, is left out)
  styles, placemarks, placemarkData, pmSeq,
  \* the import run: position in main, its arguments, its open transaction
  pc, inTruncate, inStyles, pi, pm, placemarkID, extLeft,
  txPm, txData,
  \* how the last run ended, and why a statement failed
  outcome, failCause,
  \* history: the tables when the run started, whether its TRUNCATE ran,
  \* whether importStyles returned nil
  pmAtStart, dataAtStart, stylesAtStart, truncated, stylesDone,
  \* the response of the step just taken, when that step was a read query
  qResult,
  \* parseKML's walk: the call stack, the backing arrays of the folder-path
  \* slices, the list parseKML returns, the folders and placemarks read so far
  wStack, wHeap, wOut, wDone, nFolders, nPlacemarks,
  \* history: the placemarks processPlacemark returned a record for
  wKept,
  \* buildPolygonWKT: the Polygon element as read so far (the coordinate text
  \* of its outer boundary, then of each inner boundary), and the result
  gText, gWKT, gDone,
  \* parseCoordinates: the coordinate text read so far, and the result
  cText, cCoords, cDone,
  \* processPlacemark: the Placemark node as read so far, and the result
  nNode, nRec, nDone,
  \* the API server's bounding-box handler: the request it served with the
  \* response it wrote, and the markers the map drew from that response
  aResp, aMarkers,
  \* two runs on one document: the document (what parseKML hands to main in
  \* each of them), and history: the tables as the first completed run left
  \* them
  tDoc, tFirst,
  \* usePlacemarksBBox in one mounted component: its limit option, its bbox
  \* argument, the pending setTimeout, the debounced box, the query cache
  \* and the fetches in flight under its keys, the requests the step just
  \* taken sent and the answer it handled; history: the changes of the box
  \* less than debounceMs apart that no timer has yet followed (2 stands for
  \* several), and, when the step just taken was the timer firing, that
  \* count and the debounced box as they were before
  hLimit, hBBox, hTimer, hDebounced, hCache, hFlight, hSent, hAnswer,
  hChanges, hFired,
  \* the map with MapFlyToHandler: the store's selectedPlacemarkId,
  \* previousIdRef, the placemarks of the loaded response, coordinatesMapRef,
  \* the map's centre and zoom, the flyTo call of the step just taken, and whether
  \* MapFlyToHandler's effect is still to run after a render
  fSelected, fPrevious, fData, fCoords, fView, fFlown, fEffect

importVars ==
  <<styles, placemarks, placemarkData, pmSeq,
    pc, inTruncate, inStyles, pi, pm, placemarkID, extLeft,
    txPm, txData, outcome, failCause,
    pmAtStart, dataAtStart, stylesAtStart, truncated, stylesDone,
    qResult>>

walkVars == <<wStack, wHeap, wOut, wDone, nFolders, nPlacemarks, wKept>>

geomVars == <<gText, gWKT, gDone>>

coordVars == <<cText, cCoords, cDone>>

normVars == <<nNode, nRec, nDone>>

apiVars == <<aResp, aMarkers>>

twiceVars == <<tDoc, tFirst>>

hookVars == <<hLimit, hBBox, hTimer, hDebounced, hCache, hFlight, hSent,
              hAnswer, hChanges, hFired>>

flyVars == <<fSelected, fPrevious, fData, fCoords, fView, fFlown, fEffect>>

webVars == <<hookVars, flyVars>>

\* The state beside the import program's and the store's.
restVars == <<apiVars, twiceVars, webVars>>

vars == <<importVars, walkVars, geomVars, coordVars, normVars, restVars>>

\* What a step of the import run or of a query leaves alone.
notImportVars == <<walkVars, geomVars, coordVars, normVars, restVars>>

(***************************************************************************)
(* The tables: sets of rows.                                               *)
(***************************************************************************)
\* importStyles' argument list for one INSERT INTO styles.
StyleRow(style) ==
  [id |-> style.ID,
   icon_href |-> IF style.IconStyle # None THEN style.IconStyle[1].Icon ELSE None,
   icon_scale |-> IF style.IconStyle # None
                    THEN Some(style.IconStyle[1].Scale) ELSE None,
   label_scale |-> IF style.LabelStyle # None
                     THEN Some(style.LabelStyle[1].Scale) ELSE None,
   raw_xml |-> ""]

\* INSERT ... ON CONFLICT (id) DO NOTHING, which would keep the stored values.
UpsertStyleKeepOld(tbl, row) ==
  IF \E r \in tbl : r.id = row.id
    THEN [ok |-> TRUE, tbl |-> tbl]
    ELSE [ok |-> TRUE, tbl |-> tbl \cup {row}]

\* INSERT INTO styles ... ON CONFLICT (id) DO UPDATE SET every other column.
\* ok = FALSE would be a primary-key violation.
UpsertStyle(tbl, row) ==
  [ok |-> TRUE, tbl |-> {r \in tbl : r.id # row.id} \cup {row}]

\* The queued statements of the batch, executed in order; the batch stops at
\* the first statement that fails.
RECURSIVE ExecBatch(_, _)
ExecBatch(tbl, rows) ==
  IF rows = <<>> THEN [ok |-> TRUE, tbl |-> tbl]
  ELSE LET r == UpsertStyle(tbl, Head(rows))
       IN IF r.ok THEN ExecBatch(r.tbl, Tail(rows)) ELSE [ok |-> FALSE, tbl |-> tbl]

StyleExists(id) == \E r \in styles : r.id = id

\* main's reaction to importStyles' error, had main logged it and gone on.
AfterImportStylesIgnoringErr(err) == "placemarks"

\* main: if err := importStyles(...); err != nil { log.Fatalf(...) }
AfterImportStyles(err) == IF err THEN "exit" ELSE "placemarks"

\* A rollback that would keep the pending rows, as if the inserts had gone
\* through the pool instead of through tx.
RollbackKeeps(tbl, pending) == tbl \cup pending

\* defer tx.Rollback(ctx): the pending rows of the transaction are discarded.
Rollback(tbl, pending) == tbl

\* tx.Commit(ctx): the pending rows become visible.
Commit(tbl, pending) == tbl \cup pending

\* A resolution that would trust the document's token.
ResolveStyleUnchecked(rec, err) ==
  IF rec.StyleID # "" THEN Some(rec.StyleID) ELSE None

\* The style reference of the row to insert: the token when it is not empty
\* and SELECT EXISTS(...) says the style is stored; NULL otherwise.
ResolveStyle(rec, err) ==
  IF rec.StyleID # "" /\ ~err /\ StyleExists(rec.StyleID)
    THEN Some(rec.StyleID) ELSE None

\* The row INSERT INTO placemarks writes.
PlacemarkRow(rec, styleID, id) ==
  [id |-> id, name |-> rec.Name, description |-> rec.Description,
   style_id |-> styleID, folder_path |-> rec.FolderPath,
   geometry_type |-> rec.GeometryType, geom |-> rec.Geom,
   gx_media_links |-> IF Len(rec.MediaLinks) > 0 THEN Some(rec.MediaLinks) ELSE None]

\* style_id TEXT REFERENCES styles(id)
StyleFkHolds(styleID) == styleID = None \/ StyleExists(styleID[1])

\* placemark_id INTEGER REFERENCES placemarks(id), as the transaction sees it
PlacemarkFkHolds(id) == \E p \in placemarks \cup txPm : p.id = id

\* A TRUNCATE without RESTART IDENTITY: the sequence goes on.
ContinueIdentity(seq) == seq

\* RESTART IDENTITY: the sequence of placemarks.id starts over.
RestartIdentity(seq) == 0

\* A TRUNCATE of placemarks that would leave placemark_data alone.
TruncatedDataKeeps(tbl) == tbl

\* A TRUNCATE whose CASCADE would reach styles.
TruncatedStylesToo(tbl) == {}

\* TRUNCATE placemark_data, placemarks RESTART IDENTITY CASCADE: both tables
\* are emptied.  CASCADE reaches the tables that reference them: none besides
\* placemark_data; styles is referenced by placemarks, not the reverse.
TruncatedPlacemarks(tbl) == {}
TruncatedData(tbl) == {}
TruncatedStyles(tbl) == tbl

(***************************************************************************)
(* The import run: main, step by step.  The document's lists are drawn as  *)
(* the code reads them: the style list when importStyles is called, each   *)
(* placemark when the loop reaches it, the end of the list when the loop   *)
(* tests for it.                                                           *)
(***************************************************************************)
\* No query answered in this step.
NoResponse == [kind |-> "none", rows |-> {}, events |-> <<>>]

InRun == pc \in {"schema", "truncate", "styles", "placemarks", "loop", "ext"}

NoPm == [Name |-> "", Description |-> "", StyleID |-> "", FolderPath |-> <<>>,
         GeometryType |-> "", Geom |-> [type |-> "", coordinates |-> <<>>],
         MediaLinks |-> <<>>,
         ExtendedData |-> <<>>]

\* The process ends: how, and why a statement failed if one did.  pi stays
\* where the loop stood.  The history of the run is dropped, except the tables
\* as they were when it started, kept after a run that did not complete.
Exit(how, cause) ==
  /\ pc' = "exit"
  /\ outcome' = how
  /\ failCause' = cause
  /\ inStyles' = <<>>
  /\ pm' = NoPm /\ placemarkID' = 0 /\ extLeft' = {}
  /\ pi' = pi
  /\ stylesAtStart' = {} /\ truncated' = FALSE /\ stylesDone' = FALSE
  /\ pmAtStart' = IF how = "done" THEN {} ELSE pmAtStart
  /\ dataAtStart' = IF how = "done" THEN {} ELSE dataAtStart

loopVars == <<pi, pm, placemarkID, extLeft>>
tableVars == <<styles, placemarks, placemarkData, pmSeq>>
histVars == <<pmAtStart, dataAtStart, stylesAtStart, truncated, stylesDone>>
runVars == <<outcome, failCause, inStyles, loopVars, histVars>>

\* A main that would connect and truncate before it parses the document.
StartParsesLate ==
  /\ pc \in {"idle", "exit"}
  /\ pc' = "exit" /\ outcome' = "parse" /\ inTruncate' = TRUE
  /\ failCause' = "none"
  /\ inStyles' = <<>>
  /\ pi' = 0 /\ pm' = NoPm /\ placemarkID' = 0 /\ extLeft' = {}
  /\ pmAtStart' = placemarks
  /\ dataAtStart' = placemarkData
  /\ stylesAtStart' = {}
  /\ truncated' = TRUE
  /\ stylesDone' = FALSE
  /\ txPm' = {} /\ txData' = {}
  /\ placemarks' = {} /\ placemarkData' = {}
  /\ UNCHANGED <<styles, pmSeq>>
  /\ qResult' = NoResponse
  /\ UNCHANGED notImportVars

\* main up to the database connection: flags, parseKML, the dry-run return.
Start ==
  /\ pc \in {"idle", "exit"}
  /\ \/ pc' = "exit" /\ outcome' = "parse" /\ inTruncate' = FALSE
     \/ pc' = "exit" /\ outcome' = "dry" /\ inTruncate' = FALSE
     \/ \E truncate \in BOOLEAN :
          pc' = "schema" /\ outcome' = "running" /\ inTruncate' = truncate
  /\ failCause' = "none"
  /\ inStyles' = <<>>
  /\ pi' = 0 /\ pm' = NoPm /\ placemarkID' = 0 /\ extLeft' = {}
  /\ pmAtStart' = placemarks
  /\ dataAtStart' = placemarkData
  /\ stylesAtStart' = IF pc' = "exit" THEN {} ELSE styles
  /\ truncated' = FALSE
  /\ stylesDone' = FALSE
  /\ txPm' = {} /\ txData' = {}
  /\ UNCHANGED tableVars
  /\ qResult' = NoResponse
  /\ UNCHANGED notImportVars

\* pgxpool.New and ensureSchema: CREATE ... IF NOT EXISTS changes no row.
EnsureSchema ==
  /\ pc = "schema"
  /\ \E ok \in BOOLEAN :
       IF ok THEN /\ pc' = IF inTruncate THEN "truncate" ELSE "styles"
                  /\ UNCHANGED runVars
             ELSE Exit("schema", "injected")
  /\ UNCHANGED <<tableVars, inTruncate, txPm, txData>>
  /\ qResult' = NoResponse
  /\ UNCHANGED notImportVars

\* truncateData: one statement on the pool, committed on its own.
TruncateData ==
  /\ pc = "truncate"
  /\ \E ok \in BOOLEAN :
       IF ok
         THEN /\ placemarks' = TruncatedPlacemarks(placemarks)
              /\ placemarkData' = TruncatedData(placemarkData)
              /\ styles' = TruncatedStyles(styles)
              /\ pmSeq' = RestartIdentity(pmSeq)
              /\ truncated' = TRUE
              /\ pc' = "styles"
              /\ UNCHANGED <<outcome, failCause, inStyles, loopVars, pmAtStart,
                             dataAtStart, stylesAtStart, stylesDone>>
         ELSE /\ Exit("truncate", "injected")
              /\ UNCHANGED tableVars
  /\ UNCHANGED <<inTruncate, txPm, txData>>
  /\ qResult' = NoResponse
  /\ UNCHANGED notImportVars

\* importStyles: the batch of upserts, sent at once and run by the server in
\* one implicit transaction; failed says that one of its statements fails.
ImportStyles ==
  /\ pc = "styles"
  /\ \E sts \in SeqsUpTo(StylePool, MaxStyles), failed \in BOOLEAN :
       LET rows == [i \in 1..Len(sts) |-> StyleRow(sts[i])]
           res == ExecBatch(styles, rows)
           err == failed \/ ~res.ok
       IN /\ failed => sts # <<>>
          /\ styles' = IF err THEN styles ELSE res.tbl
          /\ LET to == AfterImportStyles(err)
             IN IF to = "exit"
                  THEN Exit("styles", IF failed THEN "injected" ELSE "pk")
                  ELSE /\ pc' = to /\ inStyles' = sts
                       /\ stylesDone' = ~err
                       /\ UNCHANGED <<outcome, failCause, loopVars, pmAtStart,
                                      dataAtStart, stylesAtStart, truncated>>
  /\ UNCHANGED <<placemarks, placemarkData, pmSeq, inTruncate, txPm, txData>>
  /\ qResult' = NoResponse
  /\ UNCHANGED notImportVars

\* importPlacemarks up to the loop: the empty list returns at once, otherwise
\* pool.Begin.
BeginTx ==
  /\ pc = "placemarks"
  /\ \E empty \in BOOLEAN, ok \in BOOLEAN :
       /\ empty => ok
       /\ IF empty THEN Exit("done", "none")
          ELSE IF ok THEN /\ pc' = "loop" /\ pi' = 1
                          /\ inStyles' = <<>> /\ stylesAtStart' = {}
                          /\ UNCHANGED <<outcome, failCause, pm, placemarkID,
                                         extLeft, pmAtStart, dataAtStart,
                                         truncated, stylesDone>>
          ELSE Exit("begin", "injected")
  /\ UNCHANGED <<tableVars, inTruncate, txPm, txData>>
  /\ qResult' = NoResponse
  /\ UNCHANGED notImportVars

\* The error return of importPlacemarks: the deferred tx.Rollback, then
\* main's log.Fatalf.
FailTx(how, cause) ==
  /\ Exit(how, cause)
  /\ placemarks' = Rollback(placemarks, txPm)
  /\ placemarkData' = Rollback(placemarkData, txData)
  /\ txPm' = {} /\ txData' = {}

\* One turn of the loop up to the INSERT INTO placemarks ... RETURNING id.
InsertPlacemark ==
  /\ pc = "loop" /\ pmSeq < MaxId
  /\ \E rec \in PlacemarkPool, checkErr \in BOOLEAN, insertOk \in BOOLEAN :
       LET queried == rec.StyleID # ""
           styleID == ResolveStyle(rec, queried /\ checkErr)
           row == PlacemarkRow(rec, styleID, pmSeq + 1)
       IN /\ (~queried) => ~checkErr
          /\ IF ~insertOk
               THEN /\ FailTx("placemarks", "injected")
                    /\ UNCHANGED pmSeq
             ELSE IF ~StyleFkHolds(styleID)
               THEN /\ FailTx("placemarks", "fk")
                    /\ UNCHANGED pmSeq
             ELSE /\ txPm' = txPm \cup {row}
                  /\ pmSeq' = pmSeq + 1
                  /\ placemarkID' = row.id
                  /\ pm' = rec
                  /\ extLeft' = DOMAIN rec.ExtendedData
                  /\ IF DOMAIN rec.ExtendedData = {}
                       THEN pc' = "loop" /\ pi' = pi + 1
                       ELSE pc' = "ext" /\ pi' = pi
                  /\ UNCHANGED <<placemarks, placemarkData, txData, outcome,
                                 failCause, inStyles, histVars>>
  /\ UNCHANGED <<styles, inTruncate>>
  /\ qResult' = NoResponse
  /\ UNCHANGED notImportVars

\* One INSERT INTO placemark_data: Go ranges over the map in any order.
InsertExtendedData ==
  /\ pc = "ext"
  /\ \E key \in extLeft, ok \in BOOLEAN :
       IF ~ok
         THEN FailTx("placemarks", "injected")
       ELSE IF ~PlacemarkFkHolds(placemarkID)
         THEN FailTx("placemarks", "fk")
       ELSE /\ txData' = txData \cup
                  {[placemark_id |-> placemarkID,
                    key |-> key, value |-> pm.ExtendedData[key]]}
            /\ extLeft' = extLeft \ {key}
            /\ IF extLeft \ {key} = {}
                 THEN pc' = "loop" /\ pi' = pi + 1
                 ELSE pc' = "ext" /\ pi' = pi
            /\ UNCHANGED <<placemarks, placemarkData, txPm, placemarkID, pm,
                           outcome, failCause, inStyles, histVars>>
  /\ UNCHANGED <<styles, pmSeq, inTruncate>>
  /\ qResult' = NoResponse
  /\ UNCHANGED notImportVars

\* The list is exhausted: return tx.Commit(ctx).
CommitTx ==
  /\ pc = "loop" /\ pi > 1
  /\ \E ok \in BOOLEAN :
       IF ok
         THEN /\ placemarks' = Commit(placemarks, txPm)
              /\ placemarkData' = Commit(placemarkData, txData)
              /\ txPm' = {} /\ txData' = {}
              /\ Exit("done", "none")
         ELSE FailTx("commit", "injected")
  /\ UNCHANGED <<styles, pmSeq, inTruncate>>
  /\ qResult' = NoResponse
  /\ UNCHANGED notImportVars

\* The caller gives the run up (the process is killed): the server discards
\* the work of the connection's open transaction.
Abandon ==
  /\ InRun
  /\ FailTx("abandoned", "none")
  /\ UNCHANGED <<styles, pmSeq, inTruncate>>
  /\ qResult' = NoResponse
  /\ UNCHANGED notImportVars

(***************************************************************************)
(* The store's read queries.  Each is one SELECT on the pool: it reads the *)
(* committed rows (PostgreSQL's READ COMMITTED on another connection).     *)
(***************************************************************************)
\* A read that would see the pending rows of the open transaction too.
VisibleWithPending == placemarks \cup txPm

\* What a statement on the pool sees of placemarks.
VisibleToPool == placemarks

\* A stored geometry is its type and its coordinates: a pair for a Point, a
\* list of pairs for a LineString (the geometries of the model are of these
\* two types).
\* A geometry text is GeoJSON ({"type":"Point","coordinates":[1,1]}) or WKT
\* (POINT(1 1)): its format, its type word and its coordinates.
\* ST_AsGeoJSON(geom): the GeoJSON text, an object of the same two members.
ST_AsGeoJSON(geom) ==
  [fmt |-> "geojson", type |-> geom.type, coordinates |-> geom.coordinates]

PointInBox(p, bbox) ==
  /\ bbox.MinLon <= p[1] /\ p[1] <= bbox.MaxLon
  /\ bbox.MinLat <= p[2] /\ p[2] <= bbox.MaxLat

\* The segment from p to q meets the box: their extents overlap on both axes
\* and the corners of the box are not all strictly on one side of the line
\* through p and q.
SegmentMeetsBox(p, q, bbox) ==
  LET side(x, y) == (q[1] - p[1]) * (y - p[2]) - (q[2] - p[2]) * (x - p[1])
      corners == {side(x, y) : x \in {bbox.MinLon, bbox.MaxLon},
                               y \in {bbox.MinLat, bbox.MaxLat}}
  IN /\ (IF p[1] < q[1] THEN p[1] ELSE q[1]) <= bbox.MaxLon
     /\ (IF p[1] < q[1] THEN q[1] ELSE p[1]) >= bbox.MinLon
     /\ (IF p[2] < q[2] THEN p[2] ELSE q[2]) <= bbox.MaxLat
     /\ (IF p[2] < q[2] THEN q[2] ELSE p[2]) >= bbox.MinLat
     /\ ~(\A s \in corners : s > 0)
     /\ ~(\A s \in corners : s < 0)

\* An intersection test that would compare bounding boxes only (the &&
\* operator).
ExtentsOverlap(geom, bbox) ==
  LET pts == IF geom.type = "Point" THEN {geom.coordinates}
             ELSE Range(geom.coordinates)
  IN /\ \E p \in pts : p[1] <= bbox.MaxLon
     /\ \E p \in pts : p[1] >= bbox.MinLon
     /\ \E p \in pts : p[2] <= bbox.MaxLat
     /\ \E p \in pts : p[2] >= bbox.MinLat

\* ST_Intersects(geom, ST_MakeEnvelope(MinLon, MinLat, MaxLon, MaxLat)): the
\* geometry and the box, border included, share a point.
ST_Intersects(geom, bbox) ==
  IF geom.type = "Point" THEN PointInBox(geom.coordinates, bbox)
  ELSE \E i \in 1..(Len(geom.coordinates) - 1) :
         SegmentMeetsBox(geom.coordinates[i], geom.coordinates[i + 1], bbox)

Min(a, b) == IF a <= b THEN a ELSE b

\* rows.Scan into a Placemark.
ScanPlacemark(r) ==
  [ID |-> r.id, Name |-> r.name, Description |-> r.description,
   StyleID |-> r.style_id, FolderPath |-> r.folder_path,
   GeometryType |-> r.geometry_type, Geometry |-> ST_AsGeoJSON(r.geom),
   MediaLinks |-> IF r.gx_media_links = None THEN <<>> ELSE r.gx_media_links[1]]

\* The requests of the model: three boxes that each hold some of the stored
\* geometries (the first has bounds that are 0), with result ceilings below
\* and above what they can hold.
Boxes == { [MinLon |-> 0, MinLat |-> 0, MaxLon |-> 2, MaxLat |-> 4],
           [MinLon |-> 3, MinLat |-> 2, MaxLon |-> 6, MaxLat |-> 6],
           [MinLon |-> 1, MinLat |-> 1, MaxLon |-> 3, MaxLat |-> 5] }

Limits == {0, 1, 2, 5}

\* The requests that arrive while an import runs: the first box, which holds
\* two of the three points of PlacemarkPool, with a ceiling above what it can
\* hold.
ServeBoxes == { [MinLon |-> 0, MinLat |-> 0, MaxLon |-> 2, MaxLat |-> 4] }

ServeLimits == {5}

\* A query that fails returns nil and the error.
QueryFailed == [kind |-> "error", rows |-> {}, events |-> <<>>]

\* The answers PlacemarkStore.GetInBBox may give: an error, or the rows that
\* intersect the box, LIMIT of them, whichever the server picks.
BBoxAnswers(bbox, limit) ==
  LET hit == {r \in VisibleToPool : ST_Intersects(r.geom, bbox)}
  IN {QueryFailed} \cup
     { [kind |-> "bbox", events |-> <<>>,
        rows |-> {ScanPlacemark(r) : r \in S},
        bbox |-> bbox, limit |-> limit] :
       S \in {T \in SUBSET hit : Cardinality(T) = Min(limit, Cardinality(hit))} }

\* PlacemarkStore.GetInBBox
GetInBBox(boxes, limits) ==
  /\ \E bbox \in boxes, limit \in limits :
       qResult' \in BBoxAnswers(bbox, limit)
  /\ UNCHANGED <<tableVars, pc, inTruncate, inStyles, loopVars, txPm, txData,
                 outcome, failCause, histVars, notImportVars>>

\* The characters of the names the documents carry.
Chars(name) ==
  CASE name = "1/2/2017 A" ->
         <<"1", "/", "2", "/", "2", "0", "1", "7", " ", "A">>
    [] name = "12/25/2016" ->
         <<"1", "2", "/", "2", "5", "/", "2", "0", "1", "6">>
    [] name = "Stop" ->
         <<"S", "t", "o", "p">>
    [] name = "10/1/2017 09:41:56 PM - Event" ->
         <<"1", "0", "/", "1", "/", "2", "0", "1", "7", " ", "0", "9", ":",
         "4", "1", ":", "5", "6", " ", "P", "M", " ", "-", " ", "E", "v",
         "e", "n", "t">>
    [] name = "1/2/2017 3:04:05 PM" ->
         <<"1", "/", "2", "/", "2", "0", "1", "7", " ", "3", ":", "0", "4",
         ":", "0", "5", " ", "P", "M">>
    [] name = "01/02/2017 03:04:05 PM" ->
         <<"0", "1", "/", "0", "2", "/", "2", "0", "1", "7", " ", "0", "3",
         ":", "0", "4", ":", "0", "5", " ", "P", "M">>
    [] OTHER -> <<>>

\* Byte values, the order ORDER BY compares by.
Code(c) ==
  CASE c = " " -> 32 [] c = "-" -> 45 [] c = "/" -> 47 [] c = "0" -> 48
    [] c = "1" -> 49 [] c = "2" -> 50 [] c = "3" -> 51 [] c = "4" -> 52
    [] c = "5" -> 53 [] c = "6" -> 54 [] c = "7" -> 55 [] c = "9" -> 57
    [] c = ":" -> 58 [] c = "A" -> 65 [] c = "E" -> 69 [] c = "M" -> 77
    [] c = "P" -> 80 [] c = "S" -> 83 [] c = "e" -> 101 [] c = "n" -> 110
    [] c = "o" -> 111 [] c = "p" -> 112 [] c = "t" -> 116 [] c = "v" -> 118

IsDigit(c) == Code(c) >= 48 /\ Code(c) <= 57

\* name ~ '^\d{1,2}/\d{1,2}/\d{4}'
DateLike(name) ==
  LET cs == Chars(name)
  IN \E a \in {1, 2}, b \in {1, 2} :
       /\ Len(cs) >= a + b + 6
       /\ \A i \in 1..a : IsDigit(cs[i])
       /\ cs[a + 1] = "/"
       /\ \A i \in (a + 2)..(a + b + 1) : IsDigit(cs[i])
       /\ cs[a + b + 2] = "/"
       /\ \A i \in (a + b + 3)..(a + b + 6) : IsDigit(cs[i])

\* a <= b in ORDER BY name
RECURSIVE CharsLeq(_, _)
CharsLeq(a, b) ==
  IF a = <<>> THEN TRUE
  ELSE IF b = <<>> THEN FALSE
  ELSE IF Head(a) = Head(b) THEN CharsLeq(Tail(a), Tail(b))
  ELSE Code(Head(a)) < Code(Head(b))

NameLeq(x, y) == CharsLeq(Chars(x), Chars(y))

\* The order of a SELECT that would sort by id.
RECURSIVE OrderById(_)
OrderById(S) ==
  IF S = {} THEN {<<>>}
  ELSE LET m == CHOOSE x \in S : \A y \in S : x.id <= y.id
       IN {<<m>> \o rest : rest \in OrderById(S \ {m})}

\* The orders ORDER BY name may return the rows in: rows of equal name come in
\* any order.
RECURSIVE OrderByName(_)
OrderByName(S) ==
  IF S = {} THEN {<<>>}
  ELSE UNION { {<<m>> \o rest : rest \in OrderByName(S \ {m})} :
               m \in {x \in S : \A y \in S : NameLeq(x.name, y.name)} }

\* extractPointFromGeoJSON: json.Unmarshal into Coordinates []float64 fails
\* on the nested arrays of a LineString.
extractPointFromGeoJSON(geojson) ==
  IF geojson.type # "Point" THEN None
  ELSE IF Len(geojson.coordinates) < 2 THEN None
  ELSE Some([Lat |-> geojson.coordinates[2], Lon |-> geojson.coordinates[1]])

(***************************************************************************)
(* parseTimestampFromName, and time.Parse for its layouts.  A layout is    *)
(* the list of its chunks: literal characters and the standard chunks      *)
(* "1" "01" (month), "2" "02" (day), "2006" (year), "3" "03" (hour of 12), *)
(* "04" (minute), "05" (second), "PM".  A run of spaces between two        *)
(* standard chunks is one literal chunk, as time.Parse skips it in one     *)
(* step.  The names of the model have no fractional seconds.               *)
(***************************************************************************)
Layout1 == <<"1", "/", "2", "/", "2006", "  ", "3", ":", "04", ":", "05", " ", "PM">>
Layout2 == <<"01", "/", "02", "/", "2006", "  ", "03", ":", "04", ":", "05", " ", "PM">>
Layout3 == <<"1", "/", "2", "/", "2006", " ", "3", ":", "04", ":", "05", " ", "PM">>
Layout4 == <<"01", "/", "02", "/", "2006", " ", "03", ":", "04", ":", "05", " ", "PM">>

\* layouts := []string{...}
layouts == <<Layout1, Layout2, Layout3, Layout4>>

\* len(chunk)
ChunkLen(chunk) ==
  IF chunk = "2006" THEN 4
  ELSE IF chunk \in {"01", "02", "03", "04", "05", "PM", "  "} THEN 2
  ELSE 1

\* len(layout)
RECURSIVE LayoutLen(_)
LayoutLen(layout) ==
  IF layout = <<>> THEN 0 ELSE ChunkLen(Head(layout)) + LayoutLen(Tail(layout))

Digit(c) == Code(c) - 48

Drop(s, n) == SubSeq(s, n + 1, Len(s))

\* time.getnum: one or two digits; two are required when fixed.
getnum(s, fixed) ==
  IF s = <<>> THEN [ok |-> FALSE, n |-> 0, rest |-> s]
  ELSE IF ~IsDigit(s[1]) THEN [ok |-> FALSE, n |-> 0, rest |-> s]
  ELSE IF Len(s) < 2 \/ ~IsDigit(s[IF Len(s) < 2 THEN 1 ELSE 2])
    THEN IF fixed THEN [ok |-> FALSE, n |-> 0, rest |-> s]
         ELSE [ok |-> TRUE, n |-> Digit(s[1]), rest |-> Drop(s, 1)]
  ELSE [ok |-> TRUE, n |-> Digit(s[1]) * 10 + Digit(s[2]), rest |-> Drop(s, 2)]

\* time.cutspace
RECURSIVE cutspace(_)
cutspace(s) == IF s # <<>> /\ s[1] = " " THEN cutspace(Tail(s)) ELSE s

isLeap(year) == year % 4 = 0 /\ (year % 100 # 0 \/ year % 400 = 0)

daysIn(month, year) ==
  IF month = 2 THEN (IF isLeap(year) THEN 29 ELSE 28)
  ELSE IF month \in {4, 6, 9, 11} THEN 30 ELSE 31

\* The fields time.Parse starts from.
NoFields == [year |-> 0, month |-> 1, day |-> 1, hour |-> 0, min |-> 0,
             sec |-> 0, pmSet |-> FALSE, amSet |-> FALSE]

\* The loop of time.Parse over the chunks of the layout: nil on the first
\* chunk the value does not match, on a value out of range, on text left
\* after the last chunk, and on a day the month does not have.
RECURSIVE ParseChunks(_, _, _)
ParseChunks(layout, value, f) ==
  IF layout = <<>>
    THEN IF value # <<>> THEN None
         ELSE IF f.day < 1 \/ f.day > daysIn(f.month, f.year) THEN None
         ELSE Some([year |-> f.year, month |-> f.month, day |-> f.day,
                    hour |-> IF f.pmSet /\ f.hour < 12 THEN f.hour + 12
                             ELSE IF f.amSet /\ f.hour = 12 THEN 0
                             ELSE f.hour,
                    min |-> f.min, sec |-> f.sec])
  ELSE
    LET chunk == Head(layout)
        more == Tail(layout)
        num == getnum(value, chunk \in {"01", "02", "03", "04", "05"})
    IN CASE chunk \in {" ", "  "} ->
              IF value # <<>> /\ value[1] # " " THEN None
              ELSE ParseChunks(more, cutspace(value), f)
         [] chunk \in {"/", ":"} ->
              IF value = <<>> THEN None
              ELSE IF value[1] # chunk THEN None
              ELSE ParseChunks(more, Tail(value), f)
         [] chunk \in {"1", "01"} ->
              IF ~num.ok \/ num.n <= 0 \/ 12 < num.n THEN None
              ELSE ParseChunks(more, num.rest, [f EXCEPT !.month = num.n])
         [] chunk \in {"2", "02"} ->
              IF ~num.ok THEN None
              ELSE ParseChunks(more, num.rest, [f EXCEPT !.day = num.n])
         [] chunk = "2006" ->
              IF Len(value) < 4 THEN None
              ELSE IF \E i \in 1..4 : ~IsDigit(value[i]) THEN None
              ELSE ParseChunks(more, Drop(value, 4),
                     [f EXCEPT !.year = Digit(value[1]) * 1000 + Digit(value[2]) * 100
                                        + Digit(value[3]) * 10 + Digit(value[4])])
         [] chunk \in {"3", "03"} ->
              IF ~num.ok \/ 12 < num.n THEN None
              ELSE ParseChunks(more, num.rest, [f EXCEPT !.hour = num.n])
         [] chunk = "04" ->
              IF ~num.ok \/ 60 <= num.n THEN None
              ELSE ParseChunks(more, num.rest, [f EXCEPT !.min = num.n])
         [] chunk = "05" ->
              IF ~num.ok \/ 60 <= num.n THEN None
              ELSE ParseChunks(more, num.rest, [f EXCEPT !.sec = num.n])
         [] chunk = "PM" ->
              IF Len(value) < 2 THEN None
              ELSE IF SubSeq(value, 1, 2) = <<"P", "M">>
                THEN ParseChunks(more, Drop(value, 2), [f EXCEPT !.pmSet = TRUE])
              ELSE IF SubSeq(value, 1, 2) = <<"A", "M">>
                THEN ParseChunks(more, Drop(value, 2), [f EXCEPT !.amSet = TRUE])
              ELSE None

\* time.Parse(layout, value)
TimeParse(layout, value) == ParseChunks(layout, value, NoFields)

\* The loop over layouts from the i-th one: a layout longer than the name is
\* passed over; the others are tried on the first len(layout) bytes of the
\* name; the first that parses gives the timestamp.
RECURSIVE TryLayouts(_, _)
TryLayouts(cs, i) ==
  IF i > Len(layouts) THEN None
  ELSE IF Len(cs) < LayoutLen(layouts[i]) THEN TryLayouts(cs, i + 1)
  ELSE LET parsed == TimeParse(layouts[i], SubSeq(cs, 1, LayoutLen(layouts[i])))
       IN IF parsed # None THEN parsed ELSE TryLayouts(cs, i + 1)

parseTimestampFromName(name) == TryLayouts(Chars(name), 1)

\* The TimelineEvent built from one row.
TimelineEventOf(r) ==
  [PlacemarkID |-> r.id, Name |-> r.name, Description |-> r.description,
   Timestamp |-> parseTimestampFromName(r.name),
   MediaLinks |-> IF r.gx_media_links = None THEN <<>> ELSE r.gx_media_links[1],
   FolderPath |-> r.folder_path,
   Location |-> IF r.geometry_type = "Point"
                  THEN extractPointFromGeoJSON(ST_AsGeoJSON(r.geom)) ELSE None]

\* PlacemarkStore.GetTimeline
GetTimeline ==
  /\ \/ qResult' = QueryFailed
     \/ \E rows \in OrderByName({r \in VisibleToPool : DateLike(r.name)}) :
          qResult' = [kind |-> "timeline", rows |-> {},
                      events |-> [i \in 1..Len(rows) |-> TimelineEventOf(rows[i])]]
  /\ UNCHANGED <<tableVars, pc, inTruncate, inStyles, loopVars, txPm, txData,
                 outcome, failCause, histVars, notImportVars>>

(***************************************************************************)
(* parseKML's walk of the document.  A []string is a slice: a backing      *)
(* array, a length and a capacity; append writes into the backing array    *)
(* when the capacity allows and allocates a new one otherwise.  The        *)
(* document is drawn as the walk reads it; its folders carry distinct      *)
(* names, the n-th folder read being named n (0 stands for the empty       *)
(* string, the zero value of an array element).                            *)
(***************************************************************************)

\* []string{}: no backing array.
EmptySlice == [arr |-> 0, len |-> 0, cap |-> 0]

\* The elements of a slice, read now.
Deref(heap, s) == IF s.len = 0 THEN <<>> ELSE SubSeq(heap[s.arr], 1, s.len)

\* The capacity append grows a []string to (the gc runtime: double while
\* small): 0 -> 1 -> 2 -> 4 -> 8.
GrowCap(oldCap, needed) == IF needed > 2 * oldCap THEN needed ELSE 2 * oldCap

\* append(s, x): the slice returned and the heap after it.
GoAppend(heap, s, x) ==
  IF s.len < s.cap
    THEN [slice |-> [s EXCEPT !.len = s.len + 1],
          heap |-> [heap EXCEPT ![s.arr][s.len + 1] = x]]
    ELSE LET newCap == GrowCap(s.cap, s.len + 1)
             arr == [i \in 1..newCap |->
                       IF i <= s.len THEN heap[s.arr][i]
                       ELSE IF i = s.len + 1 THEN x ELSE 0]
         IN [slice |-> [arr |-> Len(heap) + 1, len |-> s.len + 1, cap |-> newCap],
             heap |-> Append(heap, arr)]

\* An assembly that would put the callee's records before the caller's.
PrependAll(list, more) == more \o list

\* placemarks = append(placemarks, more...)
AppendAll(list, more) == list \o more

Top == wStack[Len(wStack)]

SetTop(f) == [wStack EXCEPT ![Len(wStack)] = f]

notWalkVars == <<importVars, geomVars, coordVars, normVars, restVars>>

\* The loops over Placemarks (parseKML's and processFolderPlacemarks'): one
\* placemark.  processPlacemark returns nil for a placemark without usable
\* geometry, and otherwise a record that holds the slice it was given.
\* truePath is not a field of the record: it is the list of the names of the
\* folders on the call stack, by value.
WalkPlacemark ==
  /\ ~wDone /\ Top.phase = "placemarks"
  /\ nPlacemarks < MaxPlacemarks
  /\ nPlacemarks' = nPlacemarks + 1
  /\ \E usable \in BOOLEAN :
       /\ wStack' = IF usable
                      THEN SetTop([Top EXCEPT !.placemarks =
                             AppendAll(@, <<[Name |-> nPlacemarks + 1,
                                             FolderPath |-> Top.folderPath,
                                             truePath |-> Top.truePath]>>)])
                      ELSE wStack
       /\ wKept' = IF usable THEN wKept \cup {nPlacemarks + 1} ELSE wKept
  /\ UNCHANGED <<wHeap, wOut, wDone, nFolders, notWalkVars>>

\* The loops over Folders: the call processFolderPlacemarks(folder, path) up
\* to folderPath := append(parentPath, folder.Name).  parseKML passes a fresh
\* []string{}, processFolderPlacemarks its own folderPath.  The caller's loop
\* over Placemarks has ended.
WalkEnterFolder ==
  /\ ~wDone
  /\ nFolders < MaxFolders
  /\ nFolders' = nFolders + 1
  /\ LET name == nFolders + 1
         parentPath == IF Len(wStack) = 1 THEN EmptySlice ELSE Top.folderPath
         app == GoAppend(wHeap, parentPath, name)
     IN /\ wHeap' = app.heap
        /\ wStack' = Append(SetTop([Top EXCEPT !.phase = "folders"]),
                       [folderPath |-> app.slice,
                        truePath |-> Append(Top.truePath, name),
                        placemarks |-> <<>>, phase |-> "placemarks"])
  /\ UNCHANGED <<wOut, wDone, nPlacemarks, wKept, notWalkVars>>

\* Both loops have ended: processFolderPlacemarks returns its list, which the
\* caller appends to its own; parseKML returns the whole list.
WalkReturn ==
  /\ ~wDone
  /\ IF Len(wStack) = 1
       THEN /\ wOut' = Top.placemarks
            /\ wDone' = TRUE
            /\ UNCHANGED wStack
       ELSE /\ wStack' =
                 LET caller == wStack[Len(wStack) - 1]
                 IN [SubSeq(wStack, 1, Len(wStack) - 1) EXCEPT ![Len(wStack) - 1] =
                       [caller EXCEPT !.placemarks = AppendAll(@, Top.placemarks)]]
            /\ UNCHANGED <<wOut, wDone>>
  /\ UNCHANGED <<wHeap, nFolders, nPlacemarks, wKept, notWalkVars>>

(***************************************************************************)
(* The geometry builder.  A coordinate text is the list of its             *)
(* whitespace-separated tokens (strings.Fields); a token is the list of    *)
(* its comma-separated components (strings.Split).  Sscanf("%f") reads the  *)
(* longest prefix of a component that is a number and fails when there is  *)
(* none; it does not look at what follows the number.  A component is      *)
(* therefore: whether it starts with a number, that number in millionths   *)
(* of a degree, and whether text is left after it.                         *)
(***************************************************************************)
\* "1.5"
Num(v) == [ok |-> TRUE, v |-> v, junk |-> FALSE]
\* "abc"
NotNum == [ok |-> FALSE, v |-> 0, junk |-> TRUE]
\* "1.5abc"
NumThenText(v) == [ok |-> TRUE, v |-> v, junk |-> TRUE]
\* "": what Split gives after a trailing comma
NoText == [ok |-> FALSE, v |-> 0, junk |-> FALSE]

\* The tokens of a boundary: three points, one of them with an altitude, and a
\* token whose latitude is not a number.
TokenPool ==
  { <<Num(1500000), Num(0)>>,
    <<Num(-115172000), Num(36114500), Num(5000000)>>,
    <<Num(0), Num(2000000)>>,
    <<Num(0), NotNum>> }

\* parseCoordinates: the (lon, lat) pairs of the tokens that have at least
\* two components of which the first two are numbers.
RECURSIVE parseCoordinates(_)
parseCoordinates(coordsText) ==
  IF coordsText = <<>> THEN <<>>
  ELSE LET vals == Head(coordsText)
           rest == parseCoordinates(Tail(coordsText))
       IN IF Len(vals) < 2 THEN rest
          ELSE IF ~vals[1].ok THEN rest
          ELSE IF ~vals[2].ok THEN rest
          ELSE <<<<vals[1].v, vals[2].v>>>> \o rest

\* fmt's %f for a number of millionths: sign, integer part, six decimals.
FmtF(v) ==
  LET a == IF v < 0 THEN -v ELSE v
  IN [neg |-> v < 0, int |-> a \div 1000000, frac |-> a % 1000000]

\* fmt.Sprintf("%f %f", c[0], c[1]) for each point of a ring.
RingText(ring) == [i \in 1..Len(ring) |-> <<FmtF(ring[i][1]), FmtF(ring[i][2])>>]

\* A closure that would append the first point in every case.
CloseRingAlways(ring) == Append(ring, ring[1])

\* if ring[0] != ring[len(ring)-1] { ring = append(ring, ring[0]) }
CloseRing(ring) ==
  IF ring[1] # ring[Len(ring)] THEN Append(ring, ring[1]) ELSE ring

\* The inner boundaries, in order: those with fewer than 3 coordinates are
\* skipped, the others closed.
RECURSIVE InnerRings(_)
InnerRings(inner) ==
  IF inner = <<>> THEN <<>>
  ELSE LET innerCoords == parseCoordinates(Head(inner))
       IN IF Len(innerCoords) < 3 THEN InnerRings(Tail(inner))
          ELSE <<RingText(CloseRing(innerCoords))>> \o InnerRings(Tail(inner))

\* The string "": no geometry.
NoWKT == [kind |-> "", rings |-> <<>>]

\* buildPolygonWKT: "POLYGON(" ring, ring, ... ")" as the list of its rings.
buildPolygonWKT(polygon) ==
  LET outer == parseCoordinates(polygon.OuterBoundary)
  IN IF Len(outer) < 3 THEN NoWKT
     ELSE [kind |-> "POLYGON",
           rings |-> <<RingText(CloseRing(outer))>> \o InnerRings(polygon.InnerBoundary)]

notGeomVars == <<importVars, walkVars, coordVars, normVars, restVars>>

\* The tokens read so far, over all the boundaries of the element.
RECURSIVE ReadSoFar(_)
ReadSoFar(text) ==
  IF text = <<>> THEN 0 ELSE Len(Head(text)) + ReadSoFar(Tail(text))

\* The document gives one more token of the boundary being read.
GeomToken ==
  /\ ~gDone
  /\ ReadSoFar(gText) < MaxTokens
  /\ \E tok \in TokenPool :
       gText' = [gText EXCEPT ![Len(gText)] = Append(@, tok)]
  /\ UNCHANGED <<gWKT, gDone, notGeomVars>>

\* The boundary ends and an innerBoundaryIs element follows.
GeomNextRing ==
  /\ ~gDone
  /\ ReadSoFar(gText) < MaxTokens
  /\ gText[Len(gText)] # <<>>
  /\ gText' = Append(gText, <<>>)
  /\ UNCHANGED <<gWKT, gDone, notGeomVars>>

\* The Polygon element ends: processPlacemark calls buildPolygonWKT.
GeomBuild ==
  /\ ~gDone
  /\ gWKT' = buildPolygonWKT([OuterBoundary |-> gText[1],
                              InnerBoundary |-> Tail(gText)])
  /\ gDone' = TRUE
  /\ UNCHANGED <<gText, notGeomVars>>

(***************************************************************************)
(* parseCoordinates on its own, over every kind of token.                  *)
(***************************************************************************)
\* The tokens of TokenPool, and: a token of one component ("1.5"); a token
\* whose longitude is not a number ("abc,2"); a token that ends with a comma
\* ("1.5,"); tokens whose longitude or latitude is a number followed by text
\* ("1.5abc,2", "1.5,2abc"); a token whose altitude is not a number.
CoordTokenPool ==
  TokenPool \cup
  { <<Num(1500000)>>,
    <<NotNum, Num(2000000)>>,
    <<Num(1500000), NoText>>,
    <<NumThenText(1500000), Num(2000000)>>,
    <<Num(1500000), NumThenText(2000000)>>,
    <<Num(1500000), Num(2000000), NotNum>> }

notCoordVars == <<importVars, walkVars, geomVars, normVars, restVars>>

\* The text gives one more token.
CoordToken ==
  /\ ~cDone
  /\ Len(cText) < MaxCoordTokens
  /\ \E tok \in CoordTokenPool : cText' = Append(cText, tok)
  /\ UNCHANGED <<cCoords, cDone, notCoordVars>>

\* The text ends: a builder calls parseCoordinates on it.
CoordParse ==
  /\ ~cDone
  /\ cCoords' = parseCoordinates(cText)
  /\ cDone' = TRUE
  /\ UNCHANGED <<cText, notCoordVars>>

(***************************************************************************)
(* The feature normalizer: processPlacemark on one Placemark node.         *)
(***************************************************************************)
\* buildPointWKT: the first coordinate of the text, if it has one.
buildPointWKT(coordsText) ==
  LET coords == parseCoordinates(coordsText)
  IN IF Len(coords) = 0 THEN NoWKT
     ELSE [kind |-> "POINT", rings |-> <<RingText(<<coords[1]>>)>>]

\* buildLineStringWKT: the coordinates of the text, if it has two at least.
buildLineStringWKT(coordsText) ==
  LET coords == parseCoordinates(coordsText)
  IN IF Len(coords) < 2 THEN NoWKT
     ELSE [kind |-> "LINESTRING", rings |-> <<RingText(coords)>>]

\* A string with or without white space around it, and strings.TrimSpace.
Padded(s) == [text |-> s, pad |-> TRUE]
Bare(s) == [text |-> s, pad |-> FALSE]
TrimSpace(s) == [s EXCEPT !.pad = FALSE]

\* A styleUrl is a token after some number of "#"; strings.TrimPrefix(s, "#")
\* takes one away when there is one.
TrimPrefix(url) == IF url.marks > 0 THEN [url EXCEPT !.marks = @ - 1] ELSE url

\* The name of the Data entries that carry media links.
MediaKey == "gx_media_links"

\* A choice that would look for a LineString before a Point.
GeometryKindLineFirst(node) ==
  IF node.LineString # None THEN "LineString"
  ELSE IF node.Point # None THEN "Point"
  ELSE IF node.Polygon # None THEN "Polygon"
  ELSE ""

\* The cascade of processPlacemark: Point != nil, else LineString != nil, else
\* Polygon != nil, else return nil.
GeometryKind(node) ==
  IF node.Point # None THEN "Point"
  ELSE IF node.LineString # None THEN "LineString"
  ELSE IF node.Polygon # None THEN "Polygon"
  ELSE ""

\* A list that would hold each media link once.
AddMediaLinkOnce(links, value) ==
  IF value \in Range(links) THEN links ELSE Append(links, value)

\* mediaLinks = append(mediaLinks, data.Value)
AddMediaLink(links, value) == Append(links, value)

\* extData[data.Name] = data.Value: a later entry of the same name replaces
\* the earlier one.
SetKey(extData, name, value) ==
  [k \in DOMAIN extData \cup {name} |-> IF k = name THEN value ELSE extData[k]]

\* The loop over ExtendedData.Data: the media links and the map after the
\* first n entries.
RECURSIVE SplitData(_, _)
SplitData(data, n) ==
  IF n = 0 THEN [mediaLinks |-> <<>>, extData |-> <<>>]
  ELSE LET before == SplitData(data, n - 1)
       IN IF data[n].Name = MediaKey
            THEN [before EXCEPT !.mediaLinks = AddMediaLink(@, data[n].Value)]
            ELSE [before EXCEPT !.extData = SetKey(@, data[n].Name, data[n].Value)]

\* processPlacemark: nil, or the record of the node.
processPlacemark(node, folderPath) ==
  LET geomType == GeometryKind(node)
      coordsRaw == CASE geomType = "Point" -> node.Point[1]
                     [] geomType = "LineString" -> node.LineString[1]
                     [] geomType = "Polygon" -> node.Polygon[1].OuterBoundary
                     [] OTHER -> <<>>
      geomWKT == CASE geomType = "Point" -> buildPointWKT(coordsRaw)
                   [] geomType = "LineString" -> buildLineStringWKT(coordsRaw)
                   [] geomType = "Polygon" -> buildPolygonWKT(node.Polygon[1])
                   [] OTHER -> NoWKT
      split == IF node.ExtendedData # None
                 THEN SplitData(node.ExtendedData[1], Len(node.ExtendedData[1]))
                 ELSE SplitData(<<>>, 0)
  IN IF geomType = "" THEN None
     ELSE IF geomWKT = NoWKT THEN None
     ELSE Some([Name |-> TrimSpace(node.Name),
                Description |-> TrimSpace(node.Description),
                StyleID |-> TrimPrefix(node.StyleURL),
                FolderPath |-> folderPath,
                GeometryType |-> geomType,
                GeomWKT |-> geomWKT,
                CoordinatesRaw |-> coordsRaw,
                MediaLinks |-> split.mediaLinks,
                ExtendedData |-> split.extData])

\* The coordinate texts of the nodes: empty, one point, three points.
CoordTexts ==
  { <<>>,
    <<<<Num(1500000), Num(0)>>>>,
    << <<Num(1500000), Num(0)>>, <<Num(0), Num(2000000)>>,
       <<Num(-115172000), Num(36114500), Num(5000000)>> >> }

\* The Data entries of the nodes: two names, one of them with two values, and
\* two media links.
DataPool ==
  { [Name |-> "k1", Value |-> "v1"], [Name |-> "k1", Value |-> "v2"],
    [Name |-> "k2", Value |-> "v1"],
    [Name |-> MediaKey, Value |-> "a.jpg"], [Name |-> MediaKey, Value |-> "b.jpg"] }

\* The name elements and the styleUrl elements of the nodes.
NodeNames == {Bare("A"), Padded("A")}

StyleURLs == {[marks |-> 0, id |-> "s1"], [marks |-> 1, id |-> "s1"]}

\* The zero value of a Placemark: what xml.Unmarshal starts from.
ZeroPlacemark ==
  [Name |-> Bare(""), Description |-> Bare(""),
   StyleURL |-> [marks |-> 0, id |-> ""],
   Point |-> None, LineString |-> None, Polygon |-> None,
   ExtendedData |-> None]

notNormVars == <<importVars, walkVars, geomVars, coordVars, restVars>>

\* The node has a name element or a styleUrl element (each once).
NodeText ==
  /\ ~nDone
  /\ \/ /\ nNode.Name = ZeroPlacemark.Name
        /\ \E name \in NodeNames : nNode' = [nNode EXCEPT !.Name = name]
     \/ /\ nNode.StyleURL = ZeroPlacemark.StyleURL
        /\ \E url \in StyleURLs : nNode' = [nNode EXCEPT !.StyleURL = url]
  /\ UNCHANGED <<nRec, nDone, notNormVars>>

\* The node has a Point, a LineString or a Polygon element (each once).
NodeGeometry ==
  /\ ~nDone
  /\ \E text \in CoordTexts :
       \/ /\ nNode.Point = None
          /\ nNode' = [nNode EXCEPT !.Point = Some(text)]
       \/ /\ nNode.LineString = None
          /\ nNode' = [nNode EXCEPT !.LineString = Some(text)]
       \/ /\ nNode.Polygon = None
          /\ nNode' = [nNode EXCEPT !.Polygon =
                         Some([OuterBoundary |-> text, InnerBoundary |-> <<>>])]
  /\ UNCHANGED <<nRec, nDone, notNormVars>>

\* The node's ExtendedData has one more Data entry.
NodeData ==
  /\ ~nDone
  /\ LET data == IF nNode.ExtendedData = None THEN <<>> ELSE nNode.ExtendedData[1]
     IN /\ Len(data) < MaxData
        /\ \E e \in DataPool :
             nNode' = [nNode EXCEPT !.ExtendedData = Some(Append(data, e))]
  /\ UNCHANGED <<nRec, nDone, notNormVars>>

\* The walk reaches the node: processPlacemark(pm, folderPath).
Normalize ==
  /\ ~nDone
  /\ nRec' = processPlacemark(nNode, <<>>)
  /\ nDone' = TRUE
  /\ UNCHANGED <<nNode, notNormVars>>

(***************************************************************************)
(* Import with -truncate, run again and again on one document.  The steps  *)
(* are those of the import run, taken on the document's lists; the style   *)
(* lookups of the loop succeed.                                            *)
(***************************************************************************)
NoDoc == [placemarks |-> <<>>, styles |-> <<>>]

\* The documents: what parseKML returns for them.
Docs ==
  { [placemarks |-> ps, styles |-> ss] :
    ps \in SeqsUpTo(PlacemarkPool, MaxId), ss \in SeqsUpTo(StylePool, MaxStyles) }

TwiceStart ==
  /\ ~(pc = "exit" /\ outcome = "done" /\ tFirst = None)
  /\ Start
  /\ pc' = "schema" /\ inTruncate'

TwiceImportStyles ==
  /\ ImportStyles
  /\ pc' = "placemarks" => inStyles' = tDoc.styles

TwiceBeginTx ==
  /\ BeginTx
  /\ pc' = "loop" => tDoc.placemarks # <<>>
  /\ outcome' = "done" => tDoc.placemarks = <<>>

TwiceInsertPlacemark ==
  /\ pi <= Len(tDoc.placemarks)
  /\ InsertPlacemark
  /\ pc' # "exit" =>
       /\ pm' = tDoc.placemarks[pi]
       /\ \A r \in txPm' \ txPm : r.style_id = ResolveStyle(tDoc.placemarks[pi], FALSE)

TwiceCommitTx ==
  /\ pi = Len(tDoc.placemarks) + 1
  /\ CommitTx

\* History: the tables after the first run that completed.
NoteFirstRun ==
  /\ pc = "exit" /\ outcome = "done" /\ tFirst = None
  /\ tFirst' = Some([styles |-> styles, placemarks |-> placemarks,
                      placemarkData |-> placemarkData])
  /\ UNCHANGED <<importVars, walkVars, geomVars, coordVars, normVars, apiVars,
                 webVars, tDoc>>

(***************************************************************************)
(* The API server's bounding-box handler and the map's marker layer.  A    *)
(* query parameter is absent, a number, or text that is not a number.      *)
(***************************************************************************)
NoParam == [given |-> FALSE, num |-> FALSE, v |-> 0]
NumParam(v) == [given |-> TRUE, num |-> TRUE, v |-> v]
JunkParam == [given |-> TRUE, num |-> FALSE, v |-> 0]

\* getFloatParam: the default for an absent or empty parameter and for one
\* strconv.ParseFloat rejects.
getFloatParam(param, defaultVal) ==
  IF ~param.given THEN defaultVal
  ELSE IF ~param.num THEN defaultVal
  ELSE param.v

\* getIntParam, with strconv.Atoi (the numbers of the model are integers).
getIntParam(param, defaultVal) ==
  IF ~param.given THEN defaultVal
  ELSE IF ~param.num THEN defaultVal
  ELSE param.v

\* limit := getIntParam(r, "limit", 1000)
DefaultLimit == 1000

\* The requests of the model: the bounds of one of the boxes, given as their
\* numbers but for at most one that is left out or given as text that is no
\* number, with the limit left out or given.
HowGiven ==
  { h \in [1..4 -> {"number", "absent", "junk"}] :
      Cardinality({i \in 1..4 : h[i] # "number"}) <= 1 }

AsParam(v, how) ==
  IF how = "number" THEN NumParam(v) ELSE IF how = "absent" THEN NoParam ELSE JunkParam

BBoxRequests ==
  { [min_lon |-> AsParam(b.MinLon, h[1]), min_lat |-> AsParam(b.MinLat, h[2]),
     max_lon |-> AsParam(b.MaxLon, h[3]), max_lat |-> AsParam(b.MaxLat, h[4]),
     limit |-> l] :
    b \in Boxes, h \in HowGiven, l \in {NoParam, NumParam(0), NumParam(2)} }

NoReply == [status |-> 0]

\* respondJSON(w, http.StatusOK, {"placemarks", "bbox", "count"})
ReplyOK(req, bbox, rows) ==
  [status |-> 200, req |-> req, placemarks |-> rows, bbox |-> bbox,
   count |-> Cardinality(rows)]

notApiVars ==
  <<importVars, walkVars, geomVars, coordVars, normVars, twiceVars, webVars>>

\* Handlers.GetPlacemarksInBBox
GetPlacemarksInBBox ==
  /\ \E req \in BBoxRequests :
       LET minLon == getFloatParam(req.min_lon, 0)
           minLat == getFloatParam(req.min_lat, 0)
           maxLon == getFloatParam(req.max_lon, 0)
           maxLat == getFloatParam(req.max_lat, 0)
           limit == getIntParam(req.limit, DefaultLimit)
           bbox == [MinLon |-> minLon, MinLat |-> minLat,
                    MaxLon |-> maxLon, MaxLat |-> maxLat]
       IN IF minLon = 0 \/ minLat = 0 \/ maxLon = 0 \/ maxLat = 0
            THEN /\ aResp' = [status |-> 400, req |-> req]
                 /\ qResult' = NoResponse
            ELSE /\ qResult' \in BBoxAnswers(bbox, limit)
                 /\ aResp' = IF qResult'.kind = "error"
                               THEN [status |-> 500, req |-> req]
                               ELSE ReplyOK(req, bbox, qResult'.rows)
  /\ aMarkers' = None
  /\ UNCHANGED <<tableVars, pc, inTruncate, inStyles, loopVars, txPm, txData,
                 outcome, failCause, histVars, walkVars, geomVars, coordVars,
                 normVars, twiceVars, webVars>>

\* parsePointGeometry: the text must hold POINT( ... ) with two numbers in
\* it; a GeoJSON text has no parenthesis.  The result is [lat, lon].
parsePointGeometry(geometry) ==
  IF geometry.fmt # "wkt" THEN None
  ELSE IF geometry.type # "POINT" THEN None
  ELSE IF Len(geometry.coordinates) # 2 THEN None
  ELSE Some(<<geometry.coordinates[2], geometry.coordinates[1]>>)

\* PlacemarkMarkers, given the placemarks of the response: a Marker for each
\* placemark whose geometry text parses.
PlacemarkMarkers ==
  /\ aResp.status = 200
  /\ aMarkers' = Some({ [id |-> p.ID, position |-> parsePointGeometry(p.Geometry)[1]] :
                         p \in {x \in aResp.placemarks :
                                  parsePointGeometry(x.Geometry) # None} })
  /\ UNCHANGED <<aResp, notApiVars>>

InitImport ==
  /\ styles = {} /\ placemarks = {} /\ placemarkData = {}
  /\ pmSeq = 0
  /\ pc = "idle"
  /\ inTruncate = FALSE /\ inStyles = <<>>
  /\ pi = 0 /\ pm = NoPm /\ placemarkID = 0 /\ extLeft = {}
  /\ txPm = {} /\ txData = {}
  /\ outcome = "none" /\ failCause = "none"
  /\ pmAtStart = {} /\ dataAtStart = {} /\ stylesAtStart = {}
  /\ truncated = FALSE /\ stylesDone = FALSE
  /\ qResult = NoResponse

\* parseKML is entered: no folder on the stack, the top-level loop ahead.
InitWalk ==
  /\ wStack = <<[folderPath |-> EmptySlice, truePath |-> <<>>,
                 placemarks |-> <<>>, phase |-> "placemarks"]>>
  /\ wHeap = <<>>
  /\ wOut = <<>> /\ wDone = FALSE
  /\ nFolders = 0 /\ nPlacemarks = 0
  /\ wKept = {}

\* A Polygon element is opened: its outer boundary is about to be read.
InitGeom ==
  /\ gText = <<<<>>>>
  /\ gWKT = NoWKT
  /\ gDone = FALSE

\* A coordinate text is about to be read.
InitCoord ==
  /\ cText = <<>>
  /\ cCoords = <<>>
  /\ cDone = FALSE

\* A Placemark element is opened.
InitNorm ==
  /\ nNode = ZeroPlacemark
  /\ nRec = None
  /\ nDone = FALSE

(***************************************************************************)
(* usePlacemarksBBox (web/src/lib/usePlacemarksBBox.ts) with the query     *)
(* client's defaults (web/src/lib/queryClient.ts) and fetchPlacemarksBBox  *)
(* (web/src/lib/api.ts).  A box value of the hook is undefined, null or a  *)
(* BBox; time advances in ticks, and the three durations keep the order    *)
(* the source gives them: debounceMs < staleTime < gcTime.                 *)
(***************************************************************************)
Undefined ==
  [kind |-> "undefined", min_lon |-> 0, min_lat |-> 0, max_lon |-> 0, max_lat |-> 0]
Null ==
  [kind |-> "null", min_lon |-> 0, min_lat |-> 0, max_lon |-> 0, max_lat |-> 0]
BBoxOf(minLon, minLat, maxLon, maxLat) ==
  [kind |-> "box", min_lon |-> minLon, min_lat |-> minLat,
   max_lon |-> maxLon, max_lat |-> maxLat]

\* The boxes the map hands to the hook, and the limit options: undefined
\* (None), 0 and a positive number.
HookBoxes == {BBoxOf(3, 2, 6, 6), BBoxOf(1, 1, 3, 5)}
HookLimits == {None, Some(0), Some(50)}

\* debounceMs (default 300), staleTime (5 minutes) and gcTime (10 minutes),
\* in ticks.
DebounceTicks == 2
StaleTicks == 3
GcTicks == 4

\* debouncedBBox != null
NotNullish(bbox) == bbox.kind = "box"

\* placemarksBBoxQueryKey: the four coordinates and the limit.
placemarksBBoxQueryKey(bbox, limit) ==
  <<bbox.min_lon, bbox.min_lat, bbox.max_lon, bbox.max_lat, limit>>

QueryKeys == {placemarksBBoxQueryKey(b, l) : b \in HookBoxes, l \in HookLimits}

\* The key the mounted hook observes with an enabled query; under the
\* 'disabled' key nothing is ever fetched or cached.
ObservedKey(debounced, limit) ==
  IF NotNullish(debounced) THEN Some(placemarksBBoxQueryKey(debounced, limit))
  ELSE None

\* JavaScript's truthiness of an optional number: undefined and 0 are falsy.
Truthy(limit) == limit # None /\ limit[1] # 0

\* fetchPlacemarksBBox: the search parameters of the request it sends.
fetchPlacemarksBBox(bbox, limit) ==
  [min_lon |-> NumParam(bbox.min_lon), min_lat |-> NumParam(bbox.min_lat),
   max_lon |-> NumParam(bbox.max_lon), max_lat |-> NumParam(bbox.max_lat),
   limit |-> IF Truthy(limit) THEN NumParam(limit[1]) ELSE NoParam]

\* What the server may answer.
ServerAnswers == {200, 404, 500}
ResponseOk(status) == status >= 200 /\ status <= 299

\* The Error fetchPlacemarksBBox throws when response.ok is false: it has
\* no status and no response, and its message names no status code.
FetchError(status) ==
  [status |-> None, responseStatus |-> None, codes |-> {},
   message |-> "Failed to fetch placemarks by bbox"]

\* defaultQueryOptions.queries.retry
retry(failureCount, error) ==
  LET status == IF error.status # None /\ error.status[1] # 0
                  THEN error.status ELSE error.responseStatus
  IN IF status # None /\ status[1] # 0 /\ status[1] >= 400 /\ status[1] < 500
       THEN FALSE
     ELSE IF error.codes \cap {401, 403, 404} # {} THEN FALSE
     ELSE failureCount < 3

\* The effect's cleanup, clearTimeout(handler).
keepTimeout(timers) == timers
clearTimeout(timers) == {}

\* Whether an observer that starts watching a query fetches it: not while it
\* is being fetched, and not while its data is fresh.
FetchOnEveryMount(entry, flight) == flight = None
FetchOnMount(entry, flight) ==
  flight = None /\ (IF entry = None THEN TRUE ELSE entry[1].age >= StaleTicks)

notHookVars ==
  <<importVars, walkVars, geomVars, coordVars, normVars, apiVars, twiceVars,
    flyVars>>

\* The component renders with another box: the effect's cleanup runs and a
\* new timer starts.
SetBBox ==
  /\ \E b \in HookBoxes \cup {Null} :
       /\ b # hBBox
       /\ hBBox' = b
       /\ hTimer' = clearTimeout(hTimer) \cup {[left |-> DebounceTicks, value |-> b]}
  /\ hChanges' = IF \E t \in hTimer : t.left > 0 THEN Min(hChanges + 1, 2) ELSE 1
  /\ hSent' = {} /\ hAnswer' = None /\ hFired' = None
  /\ UNCHANGED <<hLimit, hDebounced, hCache, hFlight, notHookVars>>

\* The timer fires: setDebouncedBBox, and the render that follows points
\* useQuery at the new key.
TimerFires ==
  /\ \E t \in hTimer :
       /\ t.left = 0
       /\ hTimer' = hTimer \ {t}
       /\ hDebounced' = t.value
       /\ hFired' = Some([was |-> hDebounced, changes |-> hChanges])
       /\ IF t.value = hDebounced
            THEN UNCHANGED <<hCache, hFlight>> /\ hSent' = {}
            ELSE LET new == ObservedKey(t.value, hLimit)
                     fetch == new # None /\ FetchOnMount(hCache[new[1]], hFlight[new[1]])
                 IN /\ UNCHANGED hCache
                    /\ hFlight' = IF fetch
                                    THEN [hFlight EXCEPT ![new[1]] =
                                            Some([failureCount |-> 0, bbox |-> t.value])]
                                    ELSE hFlight
                    /\ hSent' = IF fetch THEN {fetchPlacemarksBBox(t.value, hLimit)}
                                ELSE {}
  /\ hChanges' = 0
  /\ hAnswer' = None
  /\ UNCHANGED <<hLimit, hBBox, notHookVars>>

\* The cached queries one tick later: data ages; a query that nobody
\* observes and nobody fetches is collected gcTime after it was last
\* observed or fetched, which is no sooner than gcTime after its data came.
Aged(cache, flight, observed) ==
  LET older(k) == [cache[k][1] EXCEPT !.age = Min(@ + 1, GcTicks)]
      due == {k \in QueryKeys : /\ cache[k] # None
                                /\ observed # Some(k) /\ flight[k] = None
                                /\ older(k).age >= GcTicks}
  IN {[k \in QueryKeys |-> IF cache[k] = None \/ k \in collected THEN None
                           ELSE Some(older(k))] : collected \in SUBSET due}

\* Time passes, by less than any pending timer has left.
Tick ==
  /\ \A t \in hTimer : t.left > 0
  /\ hTimer' = {[t EXCEPT !.left = @ - 1] : t \in hTimer}
  /\ hCache' \in Aged(hCache, hFlight, ObservedKey(hDebounced, hLimit))
  /\ hSent' = {} /\ hAnswer' = None /\ hFired' = None
  /\ UNCHANGED <<hLimit, hBBox, hDebounced, hFlight, hChanges, notHookVars>>

\* The server answers a request in flight.  A good answer is cached (the
\* body is named by the box it was asked for); after any other, the retry callback decides whether the request is sent again.
FetchSettles ==
  /\ \E k \in QueryKeys, status \in ServerAnswers :
       /\ hFlight[k] # None
       /\ hAnswer' = Some(status)
       /\ IF ResponseOk(status)
            THEN /\ hCache' = [hCache EXCEPT ![k] =
                                  Some([age |-> 0, data |-> hFlight[k][1].bbox])]
                 /\ hFlight' = [hFlight EXCEPT ![k] = None]
                 /\ hSent' = {}
            ELSE LET f == hFlight[k][1]
                 IN IF retry(f.failureCount, FetchError(status))
                      THEN /\ hFlight' = [hFlight EXCEPT ![k] =
                                            Some([f EXCEPT !.failureCount = @ + 1])]
                           /\ hSent' = {fetchPlacemarksBBox(f.bbox, hLimit)}
                           /\ UNCHANGED hCache
                      ELSE /\ hFlight' = [hFlight EXCEPT ![k] = None]
                           /\ hSent' = {}
                           /\ UNCHANGED hCache
  /\ hFired' = None
  /\ UNCHANGED <<hLimit, hBBox, hTimer, hDebounced, hChanges, notHookVars>>

\* refetchOnWindowFocus: the observed query is fetched again when its data
\* is stale.
WindowFocus ==
  /\ NotNullish(hDebounced)
  /\ LET k == placemarksBBoxQueryKey(hDebounced, hLimit)
     IN /\ FetchOnMount(hCache[k], hFlight[k])
        /\ hFlight' = [hFlight EXCEPT ![k] = Some([failureCount |-> 0, bbox |-> hDebounced])]
        /\ hSent' = {fetchPlacemarksBBox(hDebounced, hLimit)}
  /\ hAnswer' = None /\ hFired' = None
  /\ UNCHANGED <<hLimit, hBBox, hTimer, hDebounced, hCache, hChanges, notHookVars>>

\* The data useQuery returns: what the cache holds under the observed key.
HookData ==
  LET k == ObservedKey(hDebounced, hLimit)
  IN IF k = None \/ hCache[k[1]] = None THEN None ELSE Some(hCache[k[1]][1].data)

(***************************************************************************)
(* MapFlyToHandler inside PlacemarksLayer (web/src/components): the store's *)
(* selection, the coordinates PlacemarkMarkers registers, and the map's    *)
(* view.  Leaflet's projection is taken as linear around the centre.       *)
(***************************************************************************)
\* The placemarks a response may hold: two with the text the marker parser
\* reads, one with the text the bounding-box endpoint writes.
FlyPlacemarks ==
  { [id |-> 1, geometry |-> [fmt |-> "wkt", type |-> "POINT", coordinates |-> <<0, 0>>]],
    [id |-> 2, geometry |-> [fmt |-> "wkt", type |-> "POINT", coordinates |-> <<2, 2>>]],
    [id |-> 3, geometry |-> ST_AsGeoJSON([type |-> "Point", coordinates |-> <<1, 1>>])] }
FlyIds == {p.id : p \in FlyPlacemarks}

\* map.getZoom(): MapContainer starts at 13 and sets no maxZoom, the tile
\* layer ends at 18.
Zooms == {13, 16, 18}
Centers == {<<0, 0>>, <<2, 2>>}
Views == {[center |-> c, zoom |-> z] : c \in Centers, z \in Zooms}

\* MapFlyToHandler's defaults.
FlyMaxZoom == 16
ViewportPadding == 100

\* map.getSize(), and the pixels of one unit of latitude or longitude.
MapSize == [x |-> 800, y |-> 600]
PixelsPerUnit(zoom) == IF zoom <= 13 THEN 150 ELSE IF zoom <= 16 THEN 1200 ELSE 4800

\* map.latLngToContainerPoint([lat, lon])
latLngToContainerPoint(view, latlng) ==
  [x |-> 400 + (latlng[2] - view.center[2]) * PixelsPerUnit(view.zoom),
   y |-> 300 - (latlng[1] - view.center[1]) * PixelsPerUnit(view.zoom)]

\* The viewport test of the effect, and the test against the bare viewport.
isInBareViewport(targetPoint, mapSize, viewportPadding) ==
  /\ targetPoint.x >= 0 /\ targetPoint.x <= mapSize.x
  /\ targetPoint.y >= 0 /\ targetPoint.y <= mapSize.y
isInViewport(targetPoint, mapSize, viewportPadding) ==
  /\ targetPoint.x >= viewportPadding
  /\ targetPoint.x <= mapSize.x - viewportPadding
  /\ targetPoint.y >= viewportPadding
  /\ targetPoint.y <= mapSize.y - viewportPadding

\* Math.max
MathMax(a, b) == IF a >= b THEN a ELSE b

\* PlacemarkMarkers' effect (handleCoordinatesMap for every placemark whose
\* geometry parses), then PlacemarksLayer's effect on data, which clears the
\* map for no placemarks and drops the ids the data does not hold.
RegisterCoordinates(coords, data) ==
  LET shown == IF data = None THEN {} ELSE data[1]
      set == [id \in FlyIds |->
                IF \E p \in shown : p.id = id /\ parsePointGeometry(p.geometry) # None
                  THEN parsePointGeometry(
                         (CHOOSE p \in shown : p.id = id /\ parsePointGeometry(p.geometry) # None).geometry)
                  ELSE coords[id]]
  IN [id \in FlyIds |->
        IF shown = {} THEN None
        ELSE IF id \in {p.id : p \in shown} THEN set[id] ELSE None]

\* getCoordinates
getCoordinates(coords, placemarkId) == coords[placemarkId]

notFlyVars ==
  <<importVars, walkVars, geomVars, coordVars, normVars, apiVars, twiceVars,
    hookVars>>

\* usePlacemarksBBox returns other data (none while a box is loading): the
\* layer renders and the effects of the markers and of the layer run.
LoadData ==
  /\ ~fEffect
  /\ \E data \in {None} \cup {Some(S) : S \in SUBSET FlyPlacemarks} :
       /\ data # fData
       /\ fData' = data
       /\ fCoords' = RegisterCoordinates(fCoords, data)
  /\ fFlown' = None
  /\ UNCHANGED <<fSelected, fPrevious, fView, fEffect, notFlyVars>>

\* selectPlacemark(id) from the timeline, a marker or the detail panel; the
\* handler renders and its effect is due.
SelectPlacemark ==
  /\ ~fEffect
  /\ \E sel \in {None} \cup {Some(id) : id \in FlyIds} :
       /\ sel # fSelected
       /\ fSelected' = sel
  /\ fEffect' = TRUE
  /\ fFlown' = None
  /\ UNCHANGED <<fPrevious, fData, fCoords, fView, notFlyVars>>

\* The user pans or zooms the map.
MoveMap ==
  /\ ~fEffect
  /\ \E view \in Views : view # fView /\ fView' = view
  /\ fFlown' = None
  /\ UNCHANGED <<fSelected, fPrevious, fData, fCoords, fEffect, notFlyVars>>

\* MapFlyToHandler's effect.
FlyToEffect ==
  /\ fEffect
  /\ fEffect' = FALSE
  /\ IF fSelected = fPrevious
       THEN UNCHANGED <<fPrevious, fView>> /\ fFlown' = None
     ELSE /\ fPrevious' = fSelected
          /\ IF fSelected = None
               THEN UNCHANGED fView /\ fFlown' = None
             ELSE LET coords == getCoordinates(fCoords, fSelected[1])
                  IN IF coords = None
                       THEN UNCHANGED fView /\ fFlown' = None
                     ELSE LET targetPoint == latLngToContainerPoint(fView, coords[1])
                              targetZoom == MathMax(fView.zoom, FlyMaxZoom)
                          IN IF ~isInViewport(targetPoint, MapSize, ViewportPadding)
                               THEN /\ fFlown' = Some([latlng |-> coords[1],
                                                       zoom |-> targetZoom])
                                    /\ fView' = [center |-> coords[1], zoom |-> targetZoom]
                               ELSE UNCHANGED fView /\ fFlown' = None
  /\ UNCHANGED <<fSelected, fData, fCoords, notFlyVars>>

\* No request has been served and no response drawn.
InitApi ==
  /\ aResp = NoReply
  /\ aMarkers = None

\* No document is being followed.
InitTwice ==
  /\ tDoc = NoDoc
  /\ tFirst = None

\* The hook has mounted with a null box and no limit: its first timer runs.
InitHook ==
  /\ hLimit = None
  /\ hBBox = Null
  /\ hTimer = {[left |-> DebounceTicks, value |-> Null]}
  /\ hDebounced = Undefined
  /\ hCache = [k \in QueryKeys |-> None]
  /\ hFlight = [k \in QueryKeys |-> None]
  /\ hSent = {} /\ hAnswer = None
  /\ hChanges = 0 /\ hFired = None

\* The map has mounted at its default zoom: nothing loaded, nothing selected.
InitFly ==
  /\ fSelected = None /\ fPrevious = None
  /\ fData = None
  /\ fCoords = [id \in FlyIds |-> None]
  /\ fView = [center |-> <<0, 0>>, zoom |-> 13]
  /\ fFlown = None
  /\ fEffect = FALSE

InitRest == InitApi /\ InitTwice /\ InitHook /\ InitFly

Init == InitImport /\ InitWalk /\ InitGeom /\ InitCoord /\ InitNorm /\ InitRest

\* The import program alone.
Next ==
  \/ Start
  \/ EnsureSchema
  \/ TruncateData
  \/ ImportStyles
  \/ BeginTx
  \/ InsertPlacemark
  \/ InsertExtendedData
  \/ CommitTx
  \/ Abandon

Spec == Init /\ [][Next]_vars

\* The import program with the API server's read queries running beside it.
NextServe ==
  \/ Start
  \/ EnsureSchema
  \/ TruncateData
  \/ ImportStyles
  \/ BeginTx
  \/ InsertPlacemark
  \/ InsertExtendedData
  \/ CommitTx
  \/ Abandon
  \/ GetInBBox(ServeBoxes, ServeLimits)
  \/ GetTimeline

SpecServe == Init /\ [][NextServe]_vars

\* The features earlier import runs stored, as importPlacemarks writes them:
\* a Point inside the first box, a Point outside both boxes, a LineString
\* that crosses the first box with both ends outside it, a LineString that
\* crosses a corner of the second box and whose extent alone overlaps the
\* first, and a Point on the border of the first box.
StoredFeatures ==
  << [Name |-> "10/1/2017 09:41:56 PM - Event", Description |-> "",
      StyleID |-> "", FolderPath |-> <<"Day1">>, GeometryType |-> "Point",
      Geom |-> [type |-> "Point", coordinates |-> <<1, 1>>],
      MediaLinks |-> <<"a.jpg">>, ExtendedData |-> <<>>],
     [Name |-> "1/2/2017 3:04:05 PM", Description |-> "",
      StyleID |-> "", FolderPath |-> <<>>, GeometryType |-> "Point",
      Geom |-> [type |-> "Point", coordinates |-> <<7, 7>>],
      MediaLinks |-> <<>>, ExtendedData |-> <<>>],
     [Name |-> "Stop", Description |-> "",
      StyleID |-> "", FolderPath |-> <<>>, GeometryType |-> "LineString",
      Geom |-> [type |-> "LineString", coordinates |-> << <<-1, 1>>, <<3, 1>> >>],
      MediaLinks |-> <<>>, ExtendedData |-> <<>>],
     [Name |-> "12/25/2016", Description |-> "",
      StyleID |-> "", FolderPath |-> <<>>, GeometryType |-> "LineString",
      Geom |-> [type |-> "LineString", coordinates |-> << <<1, 6>>, <<4, 3>> >>],
      MediaLinks |-> <<>>, ExtendedData |-> <<>>],
     [Name |-> "1/2/2017 A", Description |-> "",
      StyleID |-> "", FolderPath |-> <<>>, GeometryType |-> "Point",
      Geom |-> [type |-> "Point", coordinates |-> <<2, 4>>],
      MediaLinks |-> <<>>, ExtendedData |-> <<>>] >>

\* The server is up and no import is running: placemarks holds the rows of
\* some of the stored features, the n-th under id n.
InitQuery ==
  /\ \E S \in SUBSET (1..Len(StoredFeatures)) :
       /\ placemarks = {PlacemarkRow(StoredFeatures[i], None, i) : i \in S}
       /\ pmAtStart = placemarks
  /\ styles = {} /\ placemarkData = {}
  /\ pmSeq = Len(StoredFeatures)
  /\ pc = "idle"
  /\ inTruncate = FALSE /\ inStyles = <<>>
  /\ pi = 0 /\ pm = NoPm /\ placemarkID = 0 /\ extLeft = {}
  /\ txPm = {} /\ txData = {}
  /\ outcome = "none" /\ failCause = "none"
  /\ dataAtStart = {} /\ stylesAtStart = {}
  /\ truncated = FALSE /\ stylesDone = FALSE
  /\ qResult = NoResponse
  /\ InitWalk /\ InitGeom /\ InitCoord /\ InitNorm /\ InitRest

NextQuery ==
  \/ GetInBBox(Boxes, Limits)
  \/ GetTimeline

SpecQuery == InitQuery /\ [][NextQuery]_vars

\* parseKML alone.
NextWalk ==
  \/ WalkPlacemark
  \/ WalkEnterFolder
  \/ WalkReturn

SpecWalk == Init /\ [][NextWalk]_vars

\* buildPolygonWKT alone.
NextGeom ==
  \/ GeomToken
  \/ GeomNextRing
  \/ GeomBuild

SpecGeom == Init /\ [][NextGeom]_vars

\* parseCoordinates alone.
NextCoord ==
  \/ CoordToken
  \/ CoordParse

SpecCoord == Init /\ [][NextCoord]_vars

\* The bounding-box endpoint over a table that earlier runs filled, and the
\* map drawing its responses.
NextApi ==
  \/ GetPlacemarksInBBox
  \/ PlacemarkMarkers

SpecApi == InitQuery /\ [][NextApi]_vars

\* The tables are empty and a document is chosen.
InitTwiceRuns ==
  /\ InitImport /\ InitWalk /\ InitGeom /\ InitCoord /\ InitNorm /\ InitApi
  /\ InitHook /\ InitFly
  /\ tDoc \in Docs
  /\ tFirst = None

NextTwice ==
  \/ TwiceStart
  \/ EnsureSchema
  \/ TruncateData
  \/ TwiceImportStyles
  \/ TwiceBeginTx
  \/ TwiceInsertPlacemark
  \/ InsertExtendedData
  \/ TwiceCommitTx
  \/ NoteFirstRun

SpecTwice == InitTwiceRuns /\ [][NextTwice]_vars

\* The hook mounts with any limit option.
InitHookRuns ==
  /\ InitImport /\ InitWalk /\ InitGeom /\ InitCoord /\ InitNorm
  /\ InitApi /\ InitTwice /\ InitFly
  /\ hLimit \in HookLimits
  /\ hBBox = Null
  /\ hTimer = {[left |-> DebounceTicks, value |-> Null]}
  /\ hDebounced = Undefined
  /\ hCache = [k \in QueryKeys |-> None]
  /\ hFlight = [k \in QueryKeys |-> None]
  /\ hSent = {} /\ hAnswer = None
  /\ hChanges = 0 /\ hFired = None

NextHook ==
  \/ SetBBox
  \/ TimerFires
  \/ Tick
  \/ FetchSettles
  \/ WindowFocus

SpecHook == InitHookRuns /\ [][NextHook]_vars

\* The map with its fly-to handler; in SpecFlyLive React runs the effect
\* that a render left due.
NextFly ==
  \/ LoadData
  \/ SelectPlacemark
  \/ MoveMap
  \/ FlyToEffect

SpecFly == Init /\ [][NextFly]_vars

SpecFlyLive == Init /\ [][NextFly]_vars /\ WF_vars(FlyToEffect)

\* processPlacemark alone.
NextNorm ==
  \/ NodeText
  \/ NodeGeometry
  \/ NodeData
  \/ Normalize

SpecNorm == Init /\ [][NextNorm]_vars

(***************************************************************************)
(* Properties of the import run and of the queries beside it.              *)
(***************************************************************************)
Ids(rows) == {r.id : r \in rows}

\* C1: when an insert of importPlacemarks (a placemark, an extended-data pair)
\* or its commit fails, none of the rows the transaction had written, features
\* or extended data, is visible once the run has ended.
C1_FailedBatchInvisible ==
  [][(pc \in {"loop", "ext"} /\ pc' = "exit" /\ outcome' \in {"placemarks", "commit"})
       => /\ \A r \in txPm : r \notin VisibleToPool'
          /\ \A d \in txData : d \notin placemarkData']_vars

\* A batch failed at a later insert, after at least one feature had been
\* inserted.
C1_Witness ==
  /\ pc = "exit" /\ outcome = "placemarks" /\ failCause = "injected"
  /\ pi >= 2

\* C2: a bounding-box or timeline query never returns a feature the import
\* run in progress has written and not yet committed.
C2_NoUncommittedRead ==
  /\ \A p \in qResult.rows : p.ID \notin Ids(txPm)
  /\ \A i \in DOMAIN qResult.events : qResult.events[i].PlacemarkID \notin Ids(txPm)

\* A query answered with features while the run in progress holds
\* uncommitted ones.
C2_Witness ==
  /\ qResult.kind = "bbox" /\ qResult.rows # {}
  /\ pc \in {"loop", "ext"} /\ txPm # {}

\* C3, as claimed: a run that ends without having completed leaves the
\* features and the extended data as they were when it started, also when it
\* was started with -truncate.
C3_FailedRunRestoresTables ==
  (pc = "exit" /\ outcome \notin {"done", "none"})
    => (placemarks = pmAtStart /\ placemarkData = dataAtStart)

\* C4: a feature row is written only after importStyles has returned without
\* error, all its upserts done.
C4_StylesBeforeFeatures ==
  (txPm # {} \/ pc \in {"loop", "ext"}) => stylesDone

\* A feature row written in a run whose style upserts are stored.
C4_Witness ==
  /\ txPm # {} /\ stylesDone
  /\ \E r \in txPm : r.style_id # None

\* C5: every feature row, committed or pending, has a style reference that is
\* NULL or the id of a stored style; and no insert fails on the foreign key,
\* so a token that matches no stored style does not fail the import.
C5_StyleReferencesResolve ==
  /\ \A r \in placemarks \cup txPm : r.style_id = None \/ StyleExists(r.style_id[1])
  /\ failCause # "fk"

\* A committed feature whose document token ("s9") matches no style, stored
\* with a NULL reference, beside one whose token resolved.
C5_Witness ==
  /\ \E r \in placemarks : r.name = "Stop" /\ r.style_id = None
  /\ \E r \in placemarks : r.style_id = Some("s1")

\* C7: after the truncate step both feature tables are empty and the styles
\* are those stored before it.
C7_TruncateKeepsStyles ==
  (pc = "styles" /\ truncated)
    => (placemarks = {} /\ placemarkData = {} /\ styles = stylesAtStart)

\* The truncate step has run on tables that held features, extended data and
\* styles.
C7_Witness ==
  /\ pc = "styles" /\ truncated
  /\ pmAtStart # {} /\ dataAtStart # {} /\ styles # {}

\* The last style of the list with the given token.
LastWithID(sts, id) ==
  sts[CHOOSE i \in DOMAIN sts :
        sts[i].ID = id /\ \A j \in DOMAIN sts : sts[j].ID = id => j <= i]

\* C8: when importStyles has returned without error, each token of its list
\* is stored exactly once, with the values of its last occurrence in the list,
\* and every other stored style is as it was; no statement fails on the
\* primary key.
C8_StyleUpsert ==
  /\ failCause # "pk"
  /\ (pc = "placemarks") =>
       LET ids == {s.ID : s \in Range(inStyles)}
       IN /\ \A id \in ids :
               {r \in styles : r.id = id} = {StyleRow(LastWithID(inStyles, id))}
          /\ {r \in styles : r.id \notin ids} = {r \in stylesAtStart : r.id \notin ids}

\* A style was imported whose token was stored with other values, beside a
\* stored style with another token.
C8_Witness ==
  /\ pc = "placemarks"
  /\ \E s \in Range(inStyles) :
       /\ \E r \in stylesAtStart : r.id = s.ID /\ r # StyleRow(s)
       /\ \E r \in stylesAtStart : r.id # s.ID

\* C9: every extended-data row, committed or pending, belongs to a feature
\* row that is there.
C9_ExtendedDataOwned ==
  /\ \A d \in placemarkData : d.placemark_id \in Ids(placemarks)
  /\ \A d \in txData : d.placemark_id \in Ids(placemarks \cup txPm)

\* Extended data is stored, and a later run, started on those tables, wrote
\* features and failed at its commit.
C9_Witness ==
  /\ placemarkData # {} /\ pi >= 2
  /\ pc = "exit" /\ outcome = "commit"
  /\ pmAtStart # {}

\* C6, as claimed: every record of the list parseKML returns has for
\* FolderPath the names of its ancestor folders, from the document down to its
\* own folder, whatever was walked after it.
C6_FolderPathIsAncestors ==
  wDone => \A i \in DOMAIN wOut : Deref(wHeap, wOut[i].FolderPath) = wOut[i].truePath

\* C10, as claimed: every ring of a polygon buildPolygonWKT produces, the
\* outer ring and each retained hole, has at least 4 points.
C10_RingsHaveFourPoints ==
  (gDone /\ gWKT.kind = "POLYGON")
    => \A i \in DOMAIN gWKT.rings : Len(gWKT.rings[i]) >= 4

\* The coordinates of the boundaries buildPolygonWKT retains, in order: the
\* outer boundary, then each inner boundary of at least 3 coordinates.
RECURSIVE RetainedInner(_)
RetainedInner(inner) ==
  IF inner = <<>> THEN <<>>
  ELSE LET cs == parseCoordinates(Head(inner))
       IN (IF Len(cs) >= 3 THEN <<cs>> ELSE <<>>) \o RetainedInner(Tail(inner))

Retained == <<parseCoordinates(gText[1])>> \o RetainedInner(Tail(gText))

IsOpen(cs) == cs[1] # cs[Len(cs)]

C12_FewDistinctNoGeometry ==
  (gDone /\ Cardinality(Range(parseCoordinates(gText[1]))) < 3) => gWKT = NoWKT

\* A component that is a number, all of it.
IsNumber(c) == c.ok /\ ~c.junk

\* A token of at least two components whose first two are numbers.
IsValidToken(tok) == Len(tok) >= 2 /\ IsNumber(tok[1]) /\ IsNumber(tok[2])

\* The (lon, lat) pairs of the valid tokens of a text, in order.
RECURSIVE ValidPairs(_)
ValidPairs(text) ==
  IF text = <<>> THEN <<>>
  ELSE (IF IsValidToken(Head(text))
          THEN <<<<Head(text)[1].v, Head(text)[2].v>>>> ELSE <<>>)
       \o ValidPairs(Tail(text))

\* C13, as claimed: parseCoordinates returns exactly the pairs of the tokens
\* that have two numeric components, in order; every other token is skipped.
C13_ExactlyValidPairs == cDone => cCoords = ValidPairs(cText)

\* p is a proper prefix of q.
IsProperPrefix(p, q) == Len(p) < Len(q) /\ SubSeq(q, 1, Len(p)) = p

\* The first position where two paths, neither a prefix of the other, differ.
FirstDiff(p, q) == CHOOSE k \in 1..Len(p) : p[k] # q[k] /\ \A j \in 1..(k - 1) : p[j] = q[j]

\* Feature f comes before feature g in the pre-order of the document: in the
\* same folder, f is the earlier placemark; f's folder is an ancestor of g's;
\* or, where their paths part, f is under the earlier folder.
PreOrderBefore(f, g) ==
  LET p == f.truePath
      q == g.truePath
  IN IF p = q THEN f.Name < g.Name
     ELSE IF IsProperPrefix(p, q) THEN TRUE
     ELSE IF IsProperPrefix(q, p) THEN FALSE
     ELSE p[FirstDiff(p, q)] < q[FirstDiff(p, q)]

\* C14: the list parseKML returns holds every retained feature exactly once,
\* in the pre-order of the document: top-level features first, then for each
\* folder its own features followed by those of its subfolders.
C14_PreOrder ==
  wDone =>
    /\ {wOut[i].Name : i \in DOMAIN wOut} = wKept
    /\ Len(wOut) = Cardinality(wKept)
    /\ \A i, j \in DOMAIN wOut : i < j => PreOrderBefore(wOut[i], wOut[j])

\* A walk that returned a feature of a folder nested in another and then a
\* feature of a later folder.
C14_Witness ==
  /\ wDone /\ Len(wOut) = 2
  /\ Len(wOut[1].truePath) = 2
  /\ ~IsProperPrefix(wOut[2].truePath, wOut[1].truePath)
  /\ wOut[2].truePath # wOut[1].truePath

\* The result of processPlacemark is the one built from a block of the given
\* kind, with the given text: no record when the builder gives no geometry.
BuiltFrom(kind, wkt, raw) ==
  IF wkt = NoWKT THEN nRec = None
  ELSE /\ nRec # None
       /\ nRec[1].GeometryType = kind
       /\ nRec[1].GeomWKT = wkt
       /\ nRec[1].CoordinatesRaw = raw

\* C15: the geometry of a node is taken from its Point when it has one, else
\* from its LineString, else from its Polygon; the blocks after the first
\* present one are not used, also when the first gives no geometry.
C15_FirstKindPresentWins ==
  nDone =>
    /\ nNode.Point # None
         => BuiltFrom("Point", buildPointWKT(nNode.Point[1]), nNode.Point[1])
    /\ (nNode.Point = None /\ nNode.LineString # None)
         => BuiltFrom("LineString", buildLineStringWKT(nNode.LineString[1]),
                      nNode.LineString[1])
    /\ (nNode.Point = None /\ nNode.LineString = None /\ nNode.Polygon # None)
         => BuiltFrom("Polygon", buildPolygonWKT(nNode.Polygon[1]),
                      nNode.Polygon[1].OuterBoundary)
    /\ (nNode.Point = None /\ nNode.LineString = None /\ nNode.Polygon = None)
         => nRec = None

\* A node with a Point and a usable LineString, normalized to a record.
C15_Witness ==
  /\ nDone /\ nRec # None
  /\ nNode.Point # None /\ nNode.LineString # None
  /\ buildLineStringWKT(nNode.LineString[1]) # NoWKT

\* The Data entries of the node.
NodeDataList == IF nNode.ExtendedData = None THEN <<>> ELSE nNode.ExtendedData[1]

\* C16, as claimed: every Data entry whose name is not the media-link one is
\* in the record's ExtendedData with its value, entries of the same name
\* included.
C16_AttributesPassThrough ==
  (nDone /\ nRec # None) =>
    \A i \in DOMAIN NodeDataList :
      LET e == NodeDataList[i]
      IN e.Name # MediaKey =>
           /\ e.Name \in DOMAIN nRec[1].ExtendedData
           /\ nRec[1].ExtendedData[e.Name] = e.Value

\* The values of the media-link entries of a list, in order.
RECURSIVE MediaValues(_)
MediaValues(data) ==
  IF data = <<>> THEN <<>>
  ELSE (IF Head(data).Name = MediaKey THEN <<Head(data).Value>> ELSE <<>>)
       \o MediaValues(Tail(data))

\* C17: the media-link name is never a key of the record's ExtendedData, no
\* media-link value is a value of it, and MediaLinks is the list of the values
\* of the media-link entries, in order, repeated values kept.
C17_MediaLinksSplit ==
  (nDone /\ nRec # None) =>
    /\ MediaKey \notin DOMAIN nRec[1].ExtendedData
    /\ \A k \in DOMAIN nRec[1].ExtendedData :
         nRec[1].ExtendedData[k] \notin Range(MediaValues(NodeDataList))
    /\ nRec[1].MediaLinks = MediaValues(NodeDataList)

\* A record of a node that has the same media link twice, around another
\* attribute.
C17_Witness ==
  /\ nDone /\ nRec # None
  /\ nRec[1].MediaLinks = <<"a.jpg", "a.jpg">>
  /\ DOMAIN nRec[1].ExtendedData # {}

\* C18, as claimed: the timeline event of a stored Point feature named
\* "10/1/2017 09:41:56 PM - Event" carries a timestamp and a location.
C18_EventHasTimestampAndLocation ==
  qResult.kind = "timeline" =>
    \A i \in DOMAIN qResult.events :
      LET e == qResult.events[i]
      IN (/\ e.Name = "10/1/2017 09:41:56 PM - Event"
          /\ \E r \in placemarks :
               r.id = e.PlacemarkID /\ r.geometry_type = "Point")
           => (e.Timestamp # None /\ e.Location # None)

\* The names of the model that start with a date: one or two digits, a
\* slash, one or two digits, a slash, four digits.
DatedNames ==
  {"10/1/2017 09:41:56 PM - Event", "1/2/2017 3:04:05 PM",
   "01/02/2017 03:04:05 PM", "12/25/2016", "1/2/2017 A"}

\* C19: the timeline is the list, in ascending order of name, of exactly one
\* event for every stored feature whose name starts with a date, those whose
\* name gives no timestamp included.
C19_TimelineListsEveryDatedFeature ==
  qResult.kind = "timeline" =>
    LET ev == qResult.events
        dated == {r \in placemarks : r.name \in DatedNames}
    IN /\ Len(ev) = Cardinality(dated)
       /\ \A r \in dated :
            \E i \in DOMAIN ev : ev[i].PlacemarkID = r.id /\ ev[i].Name = r.name
       /\ \A i \in DOMAIN ev : \E r \in dated : r.id = ev[i].PlacemarkID
       /\ \A i, j \in DOMAIN ev : i < j => NameLeq(ev[i].Name, ev[j].Name)

\* A timeline of all four dated features, one with a timestamp and three
\* without, in an order that is not the order of their ids, while a feature
\* without a date in its name is stored too.
C19_Witness ==
  /\ qResult.kind = "timeline"
  /\ Len(qResult.events) = 4
  /\ \E i \in DOMAIN qResult.events : qResult.events[i].Timestamp = None
  /\ \E i \in DOMAIN qResult.events : qResult.events[i].Timestamp # None
  /\ \E i, j \in DOMAIN qResult.events :
       i < j /\ qResult.events[i].PlacemarkID > qResult.events[j].PlacemarkID
  /\ \E r \in placemarks : r.name = "Stop"

Abs(n) == IF n < 0 THEN 0 - n ELSE n

\* The segment from p to q has a point in the box.  The part of a segment
\* inside a box with integer sides starts and ends at an end of the segment
\* or where it crosses a side, at a fraction k/d of the way with d the
\* product of its extents; it is enough to look at the points p + (q-p)k/d.
SegmentHasPointIn(p, q, bbox) ==
  LET dx == q[1] - p[1]
      dy == q[2] - p[2]
      d == (IF dx = 0 THEN 1 ELSE Abs(dx)) * (IF dy = 0 THEN 1 ELSE Abs(dy))
  IN \E k \in 0..d :
       /\ bbox.MinLon * d <= p[1] * d + dx * k
       /\ p[1] * d + dx * k <= bbox.MaxLon * d
       /\ bbox.MinLat * d <= p[2] * d + dy * k
       /\ p[2] * d + dy * k <= bbox.MaxLat * d

\* The geometry and the box share a point.
TrulyMeets(geom, bbox) ==
  IF geom.type = "Point"
    THEN ~(\/ geom.coordinates[1] < bbox.MinLon \/ geom.coordinates[1] > bbox.MaxLon
           \/ geom.coordinates[2] < bbox.MinLat \/ geom.coordinates[2] > bbox.MaxLat)
  ELSE \E i \in 1..(Len(geom.coordinates) - 1) :
         SegmentHasPointIn(geom.coordinates[i], geom.coordinates[i + 1], bbox)

\* C20: the bounding-box query returns only stored features whose geometry
\* shares a point with the box, at most limit of them, and all of them when
\* they are at most limit.
C20_BBoxReturnsIntersecting ==
  qResult.kind = "bbox" =>
    LET hit == {r \in placemarks : TrulyMeets(r.geom, qResult.bbox)}
    IN /\ \A p \in qResult.rows :
            \E r \in hit : r.id = p.ID /\ p.Geometry = ST_AsGeoJSON(r.geom)
       /\ Cardinality(qResult.rows) <= qResult.limit
       /\ Cardinality(hit) <= qResult.limit
            => \A r \in hit : \E p \in qResult.rows : p.ID = r.id

\* The first box asked with ceiling 2 while all five features are stored:
\* three of them meet the box; the LineString that crosses it with both ends
\* outside is returned with one of the Points inside; the Point outside and
\* the LineString whose extent alone overlaps the box are not returned.
C20_Witness ==
  /\ qResult.kind = "bbox"
  /\ qResult.bbox = [MinLon |-> 0, MinLat |-> 0, MaxLon |-> 2, MaxLat |-> 4]
  /\ qResult.limit = 2
  /\ Cardinality(placemarks) = 5
  /\ Cardinality(qResult.rows) = 2
  /\ \E p \in qResult.rows : p.GeometryType = "LineString"
  /\ \E p \in qResult.rows : p.GeometryType = "Point"
  /\ \A p \in qResult.rows : p.Name \notin {"1/2/2017 3:04:05 PM", "12/25/2016"}

\* The four bounds of the request are numbers.
AllBoundsNumbers(req) ==
  \A param \in {req.min_lon, req.min_lat, req.max_lon, req.max_lat} :
    param.given /\ param.num

\* C21, as claimed: a bounding-box request that gives all four bounds as
\* numbers is answered, unless the store fails, with features that meet the
\* box, the four bounds echoed back and a count equal to the number of
\* features returned.
C21_BBoxRequestAnswered ==
  (aResp.status \in {200, 400} /\ AllBoundsNumbers(aResp.req)) =>
    /\ aResp.status = 200
    /\ aResp.bbox = [MinLon |-> aResp.req.min_lon.v, MinLat |-> aResp.req.min_lat.v,
                     MaxLon |-> aResp.req.max_lon.v, MaxLat |-> aResp.req.max_lat.v]
    /\ aResp.count = Cardinality(aResp.placemarks)
    /\ \A p \in aResp.placemarks :
         \E r \in placemarks : r.id = p.ID /\ TrulyMeets(r.geom, aResp.bbox)

\* C29, as claimed: every Point feature of a bounding-box response the map
\* has drawn is a marker at the feature's latitude and longitude.
C29_PointFeaturesAreMarkers ==
  aMarkers # None =>
    \A p \in aResp.placemarks :
      p.GeometryType = "Point" =>
        \E r \in placemarks, m \in aMarkers[1] :
          /\ r.id = p.ID /\ m.id = p.ID
          /\ m.position = <<r.geom.coordinates[2], r.geom.coordinates[1]>>

\* C22: a run whose document cannot be parsed ends there, and the step that
\* ends it performs no store operation: the tables and the id sequence are
\* as they were, nothing was truncated, no style was written and no
\* transaction was opened.
C22_ParseFailureTouchesNothing ==
  [][outcome' = "parse" =>
       /\ pc' = "exit"
       /\ UNCHANGED <<styles, placemarks, placemarkData, pmSeq>>
       /\ ~truncated' /\ ~stylesDone'
       /\ txPm' = {} /\ txData' = {}]_vars

\* A run has ended on a parse failure while the tables hold the features and
\* the styles of an earlier run.
C22_Witness ==
  /\ outcome = "parse" /\ pc = "exit"
  /\ placemarks # {} /\ styles # {}
  /\ placemarks = pmAtStart

\* C30: a run with -truncate that completes leaves the features (ids, names,
\* folder paths, geometries, style references), the extended data and the
\* styles that the first completed run on the same document left.
C30_TruncateImportIdempotent ==
  (pc = "exit" /\ outcome = "done" /\ tFirst # None) =>
    /\ placemarks = tFirst[1].placemarks
    /\ placemarkData = tFirst[1].placemarkData
    /\ styles = tFirst[1].styles

\* A later run on the document has truncated the tables and inserted its two
\* features again, one with a style reference, and is about to commit, after
\* the first run left two features, extended data and a style.
C30_Witness ==
  /\ tFirst # None
  /\ Cardinality(tFirst[1].placemarks) = 2
  /\ tFirst[1].placemarkData # {} /\ tFirst[1].styles # {}
  /\ pc = "loop" /\ pi = 3 /\ truncated
  /\ placemarks = {} /\ Cardinality(txPm) = 2
  /\ \E r \in txPm : r.style_id # None

(***************************************************************************)
(* usePlacemarksBBox: debouncing, caching, retries and the limit.          *)
(***************************************************************************)
\* The timer fires in this step.
TimerFiredNow ==
  /\ \E t \in hTimer : t.left = 0
  /\ hBBox' = hBBox
  /\ hTimer' # hTimer

\* A fetch of box b starts in this step, as opposed to a retry of one that
\* was in flight.
FetchStartsNow(b) ==
  /\ fetchPlacemarksBBox(b, hLimit) \in hSent'
  /\ hFlight[placemarksBBoxQueryKey(b, hLimit)] = None

\* C23 as stated: when a run of several changes less than debounceMs apart
\* ends in a box, exactly one fetch is issued when the timer fires, for that
\* last box.
C23_ExactlyOneFetchForLastBox ==
  [][(TimerFiredNow /\ hChanges >= 2 /\ NotNullish(hBBox))
       => hSent' = {fetchPlacemarksBBox(hBBox, hLimit)}]_vars

\* C23, amended: the debounced box only ever becomes the box that stood when
\* the timer ran out, so no fetch starts for an intermediate box; and when
\* the timer fires, one fetch starts for the last box if that box is not
\* null, is not the box already in effect, has no fresh cached result and is
\* not being fetched, and none starts otherwise.
C23_OnlyLastBoxFetchedAtMostOnce ==
  [][/\ hDebounced' # hDebounced => (TimerFiredNow /\ hDebounced' = hBBox)
     /\ \A b \in HookBoxes : FetchStartsNow(b) => hDebounced' = b
     /\ TimerFiredNow =>
          LET k == placemarksBBoxQueryKey(hBBox, hLimit)
              due == /\ NotNullish(hBBox) /\ hBBox # hDebounced
                     /\ hFlight[k] = None
                     /\ IF hCache[k] = None THEN TRUE
                        ELSE hCache[k][1].age >= StaleTicks
          IN hSent' = IF due THEN {fetchPlacemarksBBox(hBBox, hLimit)} ELSE {}]_vars

\* Several changes came less than debounceMs apart, the timer has fired, and
\* the one request sent is for the last box; the other box was never fetched.
C23_Witness ==
  /\ hFired # None /\ hFired[1].changes = 2
  /\ NotNullish(hBBox) /\ hDebounced = hBBox
  /\ hSent = {fetchPlacemarksBBox(hBBox, hLimit)}
  /\ \A b \in HookBoxes \ {hBBox} :
       /\ hCache[placemarksBBoxQueryKey(b, hLimit)] = None
       /\ hFlight[placemarksBBoxQueryKey(b, hLimit)] = None

\* C24: after a 4xx answer no request is sent again.
C24_ClientErrorNotRetried ==
  (hAnswer # None /\ hAnswer[1] >= 400 /\ hAnswer[1] < 500) => hSent = {}

\* C27: while the cached result of a box is fresh, no step sends a request
\* for that box, and a hook that then uses the box returns that result.
C27_FreshBoxNotFetchedAgain ==
  [][\A b \in HookBoxes :
       LET k == placemarksBBoxQueryKey(b, hLimit)
       IN (hCache[k] # None /\ hCache[k][1].age < StaleTicks)
            => /\ fetchPlacemarksBBox(b, hLimit) \notin hSent'
               /\ hDebounced' = b => HookData' = Some(hCache[k][1].data)]_vars

\* The box went to null and came back while its result was fresh: the timer
\* has just fired, nothing was sent, and the hook returns the result.
C27_Witness ==
  /\ hFired # None /\ hFired[1].was = Null /\ NotNullish(hDebounced)
  /\ hSent = {}
  /\ hCache[placemarksBBoxQueryKey(hDebounced, hLimit)] # None
  /\ hCache[placemarksBBoxQueryKey(hDebounced, hLimit)][1].age < StaleTicks
  /\ hFlight[placemarksBBoxQueryKey(hDebounced, hLimit)] = None
  /\ HookData = Some(hDebounced)

\* C28: with limit 0, every request sent carries limit=0.
C28_LimitZeroIsSent ==
  hLimit = Some(0) => \A q \in hSent : q.limit = NumParam(0)

(***************************************************************************)
(* MapFlyToHandler: flying to the selected placemark.                      *)
(***************************************************************************)
\* The marker PlacemarkMarkers draws for a placemark of the loaded data, and
\* where it stands (nowhere, for a geometry that does not parse).
HasMarker(id) ==
  /\ fData # None
  /\ \E p \in fData[1] : p.id = id /\ parsePointGeometry(p.geometry) # None
MarkerAt(id) ==
  parsePointGeometry((CHOOSE p \in FlyPlacemarks : p.id = id).geometry)

\* A point of the map is outside the viewport shrunk by the padding.
OutsidePadded(latlng) ==
  LET at == latLngToContainerPoint(fView, latlng)
  IN \/ at.x < ViewportPadding \/ at.x > MapSize.x - ViewportPadding
     \/ at.y < ViewportPadding \/ at.y > MapSize.y - ViewportPadding

\* The placemarks the selection has just changed to while their marker is
\* outside the padded viewport, and those the map was just flown to.
SelectedOutside ==
  {id \in FlyIds : /\ fEffect /\ fSelected = Some(id) /\ fPrevious # fSelected
                   /\ HasMarker(id) /\ OutsidePadded(MarkerAt(id)[1])}
FlownTo ==
  {id \in FlyIds : fFlown # None /\ Some(fFlown[1].latlng) = MarkerAt(id)}

\* C25: whenever the selection has changed to a placemark whose marker is
\* outside the padded viewport, the map eventually flies to that marker.
C25_SelectedMarkerFlownTo ==
  \A id \in FlyIds : (id \in SelectedOutside) ~> (id \in FlownTo)

\* The effect has just flown the map to the marker of the selected placemark.
C25_Witness ==
  \E id \in FlyIds :
    /\ fSelected = Some(id) /\ fPrevious = fSelected /\ ~fEffect
    /\ HasMarker(id)
    /\ fFlown # None /\ Some(fFlown[1].latlng) = MarkerAt(id)
    /\ Some(fView.center) = MarkerAt(id)

\* C26: the zoom given to flyTo is at most maxZoom.
C26_FlyZoomWithinMax ==
  fFlown # None => fFlown[1].zoom <= FlyMaxZoom

====
